---- MODULE Spec2Model ----
(***************************************************************************)
(* toylib::fixed_mem_pool<item_size, chunk_size> (include/FixedMemPool.hpp) *)
(* as a state machine.  Memory is a map from slot addresses to the word    *)
(* stored in the slot's first pointer-width bytes (mem_node::next_ while   *)
(* the slot is free, the caller's data while it is allocated).  Every      *)
(* statement that touches shared state (head_, chunks_, a latch, a slot)   *)
(* is a step of its own, so that threads interleave as they can in C++.    *)
(***************************************************************************)
EXTENDS Integers, Sequences, FiniteSets, Bags, TLC

\* ------------------------------------------------------------- bounds
\* Number of client threads.
NumThreads == 2
\* item_size ranges over PtrSize..MaxItemSize, chunk_size over item_size..MaxChunkSize.
MaxItemSize == 3
MaxChunkSize == 4
\* The constructor's chunks_count ranges over 1..MaxInitChunks.
MaxInitChunks == 2
\* The heap holds room for this many chunks; make_unique throws beyond it.
MaxChunks == 3
\* With several threads, the threads make at most this many calls of the pool in total.
MaxCalls == 4
\* A single thread makes at most this many calls of the pool.
MaxCallsSeq == 9
\* A single thread that passes any pointer to free makes at most this many calls of the pool.
MaxCallsDbg == 3
\* Threads make at most this many calls of the pool in the short races of alloc_new_chunk
\* with alloc and free.
MaxCallsRace == 2
\* The items pushed into a blocking_queue are 1..MaxItem.
MaxItem == 2
\* bulk_push takes up to MaxBulk items, bulk_try_pop a max_attempt of up to MaxBulk.
MaxBulk == 2
\* The threads make at most this many calls of a blocking_queue in total.
MaxCallsBQ == 2
\* Threads that only allocate make at most this many calls.
MaxCallsGrow == 3
\* Three threads that allocate and free make at most this many calls.
MaxCallsDelay == 4
\* A thread that frees slots twice makes at most this many calls.
MaxCallsTwice == 4
\* One thread makes at most this many calls of a blocking_queue.
MaxCallsShut == 4
\* ring_buffer_spsc is constructed with a size of 0..MaxRing.
MaxRing == 2
\* The producer and the consumer make at most this many calls of a ring_buffer_spsc in total.
MaxCallsRB == 6

\* ---------------------------------------------------------- constants
\* sizeof(mem_node*), scaled: the least item_size the static_assert admits.
PtrSize == 2
\* nullptr
NULL == 0
\* "no thread holds the latch"
NoThread == 0
\* the value standing for a thrown std::bad_alloc
BadAlloc == -1

\* the threads that call the pool and the queues
Threads == 1 .. NumThreads

\* the threads of the process: the callers and one more thread, which calls
\* only where three threads meet (NextDelay)
Workers == 1 .. NumThreads + 1

VARIABLES
    item_size,      \* template parameter
    chunk_size,     \* template parameter
    chunks_,        \* std::vector<std::unique_ptr<char[]>>: sequence of chunk base addresses
    head_,          \* mem_node* head_
    mem,            \* slot address -> word stored at the slot's start
    heap,           \* number of chunks obtained from the heap so far
    node_latch_,    \* holder of node_latch_, or NoThread
    chunk_latch_,   \* holder of chunk_latch_, or NoThread
    pc,             \* per thread: position in the running call
    op,             \* per thread: the public function being run
    alloc_when_exhausted, \* per thread: alloc's argument
    ptr,            \* per thread: free's argument
    tail_node,      \* per thread: alloc_chunk_impl's tail_node
    new_chunk,      \* per thread: alloc_chunk_impl's new_chunk.get()
    snapshot,       \* per thread: debug_check_free_align's snapshot
    ret,            \* per thread: the value alloc returned, until the client takes it
    held,           \* per thread: bag of the addresses the client holds (ptrs of the tests)
    owned,          \* history, per thread: free's argument was a live allocation of the caller
    overlap,        \* history, per thread: the threads that were inside alloc_new_chunk,
                    \* before its splice, when the thread's latest call began
    stuck,          \* history: the slot the latest free pushed while the slot was head_
                    \* already, or NULL
    last,           \* history: the latest run of free-list operations
    run,            \* history: the latest run of frees and the alloc(false) calls after it
    touched,        \* history: the last step of the pool accessed a live allocation
    calls           \* number of calls of the pool started so far, where it is bounded

\* toylib::blocking_queue<T> (include/BlockingQueue.hpp)
VARIABLES
    dq_,            \* std::deque<T> dq_
    mtx_,           \* holder of mtx_, or NoThread
    cv_,            \* the threads blocked in cv_.wait
    shutdown_,      \* bool shutdown_
    qpc,            \* per thread: position in the running call of the queue
    qop,            \* per thread: the member function being run
    qarg,           \* per thread: the items to push, or max_attempt
    qres,           \* per thread: what the latest call returned
    pushed,         \* history: the items in the order in which they entered dq_
    popped          \* history: the items in the order in which they left dq_

\* toylib::ring_buffer_spsc<T> (include/RingBuffer.hpp)
VARIABLES
    rb_head_,       \* std::atomic<size_t> head_
    rb_tail_,       \* std::atomic<size_t> tail_
    size_,          \* size_t size_
    data_,          \* the cells of data_: index -> the T constructed there, or NoItem
    rpc,            \* per role (producer, consumer): position in the running call
    cur,            \* per role: cur_head of push and emplace, cur_tail of pop
    known,           \* per role: the newest value of the other role's index that the role's
                    \* thread has observed or written itself
    rarg,           \* the function the producer runs and the item it pushes
    rres,           \* per role: what the latest call returned, and pop's out
    rpushed,        \* history: the items pushed with success, in order
    rpopped         \* history: the items popped with success, in order

queue == <<dq_, mtx_, cv_, shutdown_, qpc, qop, qarg, qres, pushed, popped>>
ring == <<rb_head_, rb_tail_, size_, data_, rpc, cur, known, rarg, rres, rpushed, rpopped>>
\* The containers a pool never touches.
others == <<queue, ring>>
pool == <<item_size, chunk_size, chunks_, head_, mem, heap, node_latch_, chunk_latch_,
          pc, op, alloc_when_exhausted, ptr, tail_node, new_chunk, snapshot, ret, held, owned,
          overlap, stuck, last, run, touched>>

vars == <<pool, calls, queue, ring>>

params == <<item_size, chunk_size>>
args == <<alloc_when_exhausted, ptr>>
locals == <<tail_node, new_chunk, snapshot>>
env == <<item_size, chunk_size, calls>>
notes == <<owned, overlap, stuck>>

\* ------------------------------------------------------------ helpers
\* Mutant of ItemsPerChunk: the division rounds up.
ItemsPerChunk_RoundUp == (chunk_size + item_size - 1) \div item_size

\* chunk_size / item_size, the loop bound of the constructor and of alloc_chunk_impl
ItemsPerChunk == chunk_size \div item_size

\* The address make_unique<char[]> / new char[] returns for the k-th chunk (k = 0, 1, ...):
\* chunks are disjoint and never adjacent.
HeapBase(k) == (k + 1) * (MaxChunkSize + 1)

\* new_chunk.get() + i * item_size
SlotAddr(base, i) == base + i * item_size

\* The slots of one chunk.
SlotsOf(base) == {SlotAddr(base, i) : i \in 0 .. ItemsPerChunk - 1}

\* The value written into the test slots: tid.
Tag(t) == t

Last(s) == s[Len(s)]

\* What chunks_.back().get() can yield for thread t, which reads chunks_ without
\* chunk_latch_: the last element, or, when the read races with another thread's
\* push_back (that thread is at the push, inside chunk_latch_), the null of a moved-from
\* element of the vector's old storage.
Back(t) ==
    {Last(chunks_)} \cup (IF \E u \in Workers \ {t} : pc[u] = "i_push" THEN {NULL} ELSE {})

\* The links alloc_chunk_impl writes into a fresh chunk: slot i -> slot i+1, the last -> nullptr.
ChunkLinks(base) ==
    [a \in SlotsOf(base) |->
        IF a = SlotAddr(base, ItemsPerChunk - 1) THEN NULL ELSE a + item_size]

\* Mutant of CtorLinks: the last slot of every chunk ends the chain (the link to the next
\* chunk is forgotten).
CtorLinks_NoCrossLink(c) ==
    [a \in UNION {SlotsOf(HeapBase(k)) : k \in 0 .. c - 1} |->
        LET k == CHOOSE k \in 0 .. c - 1 : a \in SlotsOf(HeapBase(k))
        IN  IF a = SlotAddr(HeapBase(k), ItemsPerChunk - 1) THEN NULL ELSE a + item_size]

\* The links the constructor writes into chunks 0..c-1: as ChunkLinks, but the last slot of
\* chunk k links to the first slot of chunk k+1.
CtorLinks(c) ==
    [a \in UNION {SlotsOf(HeapBase(k)) : k \in 0 .. c - 1} |->
        LET k == CHOOSE k \in 0 .. c - 1 : a \in SlotsOf(HeapBase(k))
        IN  IF a = SlotAddr(HeapBase(k), ItemsPerChunk - 1)
            THEN IF k = c - 1 THEN NULL ELSE HeapBase(k + 1)
            ELSE a + item_size]

\* The live allocations: addresses a client holds or is about to take from alloc.
Pending(t) == IF pc[t] = "a_ret" /\ ret[t] \notin {NULL, BadAlloc} THEN {ret[t]} ELSE {}
LiveOf(t) == BagToSet(held[t]) \cup Pending(t)
Live == UNION {LiveOf(t) : t \in Workers}

\* The slots reachable from a by next_ links (a bounded walk: the chain may be cyclic).
RECURSIVE Reach(_, _)
Reach(a, seen) ==
    IF a = NULL \/ a \in seen \/ a \notin DOMAIN mem THEN seen
    ELSE Reach(mem[a], seen \cup {a})
FreeSet == Reach(head_, {})

\* The slots of one chunk in the order alloc_chunk_impl chains them.
ChunkSeq(base) == [i \in 1 .. ItemsPerChunk |-> SlotAddr(base, i - 1)]

\* The free list as a sequence, cut at the first repeated or foreign node.
RECURSIVE Walk(_, _)
Walk(a, seen) ==
    IF a = NULL \/ a \in seen \/ a \notin DOMAIN mem THEN <<>>
    ELSE <<a>> \o Walk(mem[a], seen \cup {a})
FreeSeq == Walk(head_, {})

\* The two threads of a ring_buffer_spsc: the producer and the consumer.
Roles == {"prod", "cons"}

\* A cell of data_ that holds no constructed T: raw memory, or a T that was destroyed.
NoItem == 0

\* blocking_queue(): dq_ empty, shutdown_(false), nobody inside.
QueueInit ==
    /\ dq_ = <<>>
    /\ mtx_ = NoThread
    /\ cv_ = {}
    /\ shutdown_ = FALSE
    /\ qpc = [t \in Workers |-> "idle"]
    /\ qop = [t \in Workers |-> "none"]
    /\ qarg = [t \in Workers |-> <<>>]
    /\ qres = [t \in Workers |-> [kind |-> "none", items |-> <<>>]]
    /\ pushed = <<>>
    /\ popped = <<>>

\* ring_buffer_spsc(size): head_(0), tail_(0), size_(size + 1), size + 1 raw cells.
RingInit(size) ==
    /\ rb_head_ = 0
    /\ rb_tail_ = 0
    /\ size_ = size + 1
    /\ data_ = [i \in 0 .. size |-> NoItem]
    /\ rpc = [r \in Roles |-> "idle"]
    /\ cur = [r \in Roles |-> 0]
    /\ known = [r \in Roles |-> 0]
    /\ rarg = <<"none", NoItem>>
    /\ rres = [r \in Roles |-> [kind |-> "none", out |-> NoItem]]
    /\ rpushed = <<>>
    /\ rpopped = <<>>

\* No run of frees is being followed.
NoRun == <<<<>>, <<>>, 0>>

\* ------------------------------------------------------- construction
\* Mutant of Init: head_ is set to the first slot of the last chunk.
Init_HeadLast ==
    /\ item_size \in PtrSize .. MaxItemSize
    /\ chunk_size \in item_size .. MaxChunkSize
    /\ \E c \in 1 .. MaxInitChunks :
        /\ chunks_ = [k \in 1 .. c |-> HeapBase(k - 1)]
        /\ mem = CtorLinks(c)
        /\ heap = c
        /\ head_ = HeapBase(c - 1)
    /\ node_latch_ = NoThread
    /\ chunk_latch_ = NoThread
    /\ pc = [t \in Workers |-> "idle"]
    /\ op = [t \in Workers |-> "none"]
    /\ alloc_when_exhausted = [t \in Workers |-> FALSE]
    /\ ptr = [t \in Workers |-> NULL]
    /\ tail_node = [t \in Workers |-> NULL]
    /\ new_chunk = [t \in Workers |-> NULL]
    /\ snapshot = [t \in Workers |-> <<>>]
    /\ ret = [t \in Workers |-> NULL]
    /\ held = [t \in Workers |-> EmptyBag]
    /\ owned = [t \in Workers |-> FALSE]
    /\ overlap = [t \in Workers |-> {}]
    /\ stuck = NULL
    /\ last = <<"init", 0, 0>>
    /\ run = NoRun
    /\ touched = FALSE
    /\ calls = 0
    /\ QueueInit /\ RingInit(0)

\* fixed_mem_pool(chunks_count): the state after construction, for every admitted
\* item_size, chunk_size and chunks_count >= 1.
Init ==
    /\ item_size \in PtrSize .. MaxItemSize
    /\ chunk_size \in item_size .. MaxChunkSize
    /\ \E c \in 1 .. MaxInitChunks :
        /\ chunks_ = [k \in 1 .. c |-> HeapBase(k - 1)]
        /\ mem = CtorLinks(c)
        /\ heap = c
    /\ head_ = HeapBase(0)
    /\ node_latch_ = NoThread
    /\ chunk_latch_ = NoThread
    /\ pc = [t \in Workers |-> "idle"]
    /\ op = [t \in Workers |-> "none"]
    /\ alloc_when_exhausted = [t \in Workers |-> FALSE]
    /\ ptr = [t \in Workers |-> NULL]
    /\ tail_node = [t \in Workers |-> NULL]
    /\ new_chunk = [t \in Workers |-> NULL]
    /\ snapshot = [t \in Workers |-> <<>>]
    /\ ret = [t \in Workers |-> NULL]
    /\ held = [t \in Workers |-> EmptyBag]
    /\ owned = [t \in Workers |-> FALSE]
    /\ overlap = [t \in Workers |-> {}]
    /\ stuck = NULL
    /\ last = <<"init", 0, 0>>
    /\ run = NoRun
    /\ touched = FALSE
    /\ calls = 0
    /\ QueueInit /\ RingInit(0)

\* The history of free-list operations, kept in `last`:
\*   <<"init", k, 0>>    since construction exactly k calls were made, all alloc(false);
\*   <<"grow", r, n>>    an alloc(true) found the list empty with n chunks in chunks_ and
\*                       is growing the pool; r = 1 if it is the retry of an alloc(true) whose
\*                       make_unique threw, else r = 0;
\*   <<"threw", f, 0>>   the latest call ended in std::bad_alloc: f = 1 for alloc, 2 for
\*                       alloc_new_chunk;
\*   <<"drain", k, n>>   that alloc spliced its chunk, and k allocs have returned since: the
\*                       growing one and k-1 calls of alloc(false);
\*   <<"free", p, 0>>    the latest operation on the free list was free(p);
\*   <<"reused", p, 0>>  free(p) was followed at once by an alloc(false), which returned;
\*   <<"none", 0, 0>>    anything else.
\* A run of allocs is followed up to the call that finds the list empty.
AfterAlloc(t) ==
    IF last[1] = "init" /\ ~alloc_when_exhausted[t] /\ last[2] <= ItemsPerChunk * Len(chunks_)
    THEN <<"init", last[2] + 1, 0>>
    ELSE IF last[1] = "drain" /\ (last[2] = 0 \/ ~alloc_when_exhausted[t])
            /\ last[2] <= ItemsPerChunk
    THEN <<"drain", last[2] + 1, last[3]>>
    ELSE IF last[1] = "free" /\ ~alloc_when_exhausted[t]
    THEN <<"reused", last[2], 0>>
    ELSE <<"none", 0, 0>>

\* The run of frees kept in `run`: <<the free list before the first free of the run, the
\* slots freed in their order, the number of alloc(false) calls that popped since>>.  Any
\* other operation on the free list ends the run.
AfterFree(t) ==
    IF run[2] # <<>> /\ run[3] = 0
    THEN <<run[1], Append(run[2], ptr[t]), 0>>
    ELSE <<FreeSeq, <<ptr[t]>>, 0>>
AfterPop(t) ==
    IF ~alloc_when_exhausted[t] /\ run[3] < Len(run[2])
    THEN <<run[1], run[2], run[3] + 1>>
    ELSE NoRun

\* ------------------------------------------------- alloc_chunk_impl
\* t runs alloc, called by the client or by alloc_as.
InAlloc(t) == op[t] \in {"alloc", "alloc_as"}

\* make_unique<char[]>(chunk_size) and the loop that threads the fresh chunk.  The chunk is
\* private to the thread until it is pushed.
ImplBuild(t) ==
    /\ pc[t] = "i_build"
    /\ heap < MaxChunks
    /\ LET base == HeapBase(heap)
       IN  /\ mem' = mem @@ ChunkLinks(base)
           /\ new_chunk' = [new_chunk EXCEPT ![t] = base]
           /\ tail_node' = [tail_node EXCEPT ![t] = SlotAddr(base, ItemsPerChunk - 1)]
    /\ heap' = heap + 1
    /\ pc' = [pc EXCEPT ![t] = "i_lock"]
    /\ touched' = FALSE
    /\ UNCHANGED <<env, others, notes, chunks_, head_, node_latch_, chunk_latch_, op, args, snapshot,
                   ret, held, last, run>>

\* Mutant of ImplThrow: the exception leaves node_latch_ locked.
ImplThrow_KeepLatch(t) ==
    /\ pc[t] = "i_build"
    /\ node_latch_' = node_latch_
    /\ ret' = [ret EXCEPT ![t] = IF InAlloc(t) THEN BadAlloc ELSE NULL]
    /\ pc' = [pc EXCEPT ![t] = IF InAlloc(t) THEN "a_ret" ELSE "idle"]
    /\ op' = [op EXCEPT ![t] = IF InAlloc(t) THEN @ ELSE "none"]
    /\ last' = <<"threw", IF InAlloc(t) THEN 1 ELSE 2, 0>>
    /\ run' = NoRun
    /\ touched' = FALSE
    /\ UNCHANGED <<env, others, notes, chunks_, head_, mem, heap, chunk_latch_, args, locals, held>>

\* make_unique throws std::bad_alloc: the stack unwinds, alloc's unique_lock releases
\* node_latch_, and the exception reaches the caller.
ImplThrow(t) ==
    /\ pc[t] = "i_build"
    /\ node_latch_' = IF node_latch_ = t THEN NoThread ELSE node_latch_
    /\ ret' = [ret EXCEPT ![t] = IF InAlloc(t) THEN BadAlloc ELSE NULL]
    /\ pc' = [pc EXCEPT ![t] = IF InAlloc(t) THEN "a_ret" ELSE "idle"]
    /\ op' = [op EXCEPT ![t] = IF InAlloc(t) THEN @ ELSE "none"]
    /\ last' = <<"threw", IF InAlloc(t) THEN 1 ELSE 2, 0>>
    /\ run' = NoRun
    /\ touched' = FALSE
    /\ UNCHANGED <<env, others, notes, chunks_, head_, mem, heap, chunk_latch_, args, locals, held>>

\* std::unique_lock cl(chunk_latch_)
ImplLock(t) ==
    /\ pc[t] = "i_lock"
    /\ chunk_latch_ = NoThread
    /\ chunk_latch_' = t
    /\ pc' = [pc EXCEPT ![t] = "i_push"]
    /\ touched' = FALSE
    /\ UNCHANGED <<env, others, notes, chunks_, head_, mem, heap, node_latch_, op, args, locals, ret,
                   held, last, run>>

\* Mutant of ImplPush: cl.unlock() is left out and chunk_latch_ stays locked.
ImplPush_KeepLatch(t) ==
    /\ pc[t] = "i_push"
    /\ chunks_' = Append(chunks_, new_chunk[t])
    /\ chunk_latch_' = chunk_latch_
    /\ new_chunk' = [new_chunk EXCEPT ![t] = NULL]
    /\ tail_node' = [tail_node EXCEPT ![t] = IF InAlloc(t) THEN NULL ELSE @]
    /\ pc' = [pc EXCEPT ![t] = IF InAlloc(t) THEN "a_back" ELSE "n_lock"]
    /\ touched' = FALSE
    /\ UNCHANGED <<env, others, notes, head_, mem, heap, node_latch_, op, args, snapshot, ret,
                   held, last, run>>

\* Mutant of ImplPush: the chunk is inserted at the front of chunks_.
ImplPush_Front(t) ==
    /\ pc[t] = "i_push"
    /\ chunks_' = <<new_chunk[t]>> \o chunks_
    /\ chunk_latch_' = NoThread
    /\ new_chunk' = [new_chunk EXCEPT ![t] = NULL]
    /\ tail_node' = [tail_node EXCEPT ![t] = IF InAlloc(t) THEN NULL ELSE @]
    /\ pc' = [pc EXCEPT ![t] = IF InAlloc(t) THEN "a_back" ELSE "n_lock"]
    /\ touched' = FALSE
    /\ UNCHANGED <<env, others, notes, head_, mem, heap, node_latch_, op, args, snapshot, ret,
                   held, last, run>>

\* chunks_.push_back(std::move(new_chunk)); cl.unlock(); return tail_node
ImplPush(t) ==
    /\ pc[t] = "i_push"
    /\ chunks_' = Append(chunks_, new_chunk[t])
    /\ chunk_latch_' = NoThread
    /\ new_chunk' = [new_chunk EXCEPT ![t] = NULL]
    /\ tail_node' = [tail_node EXCEPT ![t] = IF InAlloc(t) THEN NULL ELSE @]
    /\ pc' = [pc EXCEPT ![t] = IF InAlloc(t) THEN "a_back" ELSE "n_lock"]
    /\ touched' = FALSE
    /\ UNCHANGED <<env, others, notes, head_, mem, heap, node_latch_, op, args, snapshot, ret,
                   held, last, run>>

\* -------------------------------------------------------------- alloc
\* t is inside alloc_new_chunk and has not reached its splice: it runs alloc_chunk_impl or
\* waits for node_latch_.
PreSplice(t) == op[t] = "alloc_new_chunk" /\ pc[t] \in {"i_build", "i_lock", "i_push", "n_lock"}

\* A client calls alloc(alloc_when_exhausted = g).
AllocCall(t, g) ==
    /\ pc[t] = "idle"
    /\ op' = [op EXCEPT ![t] = "alloc"]
    /\ alloc_when_exhausted' = [alloc_when_exhausted EXCEPT ![t] = g]
    /\ UNCHANGED <<ptr, owned, stuck>>
    /\ overlap' = [overlap EXCEPT ![t] = {u \in Workers \ {t} : PreSplice(u)}]
    /\ pc' = [pc EXCEPT ![t] = "a_lock"]
    /\ touched' = FALSE
    /\ UNCHANGED <<params, others, chunks_, head_, mem, heap, node_latch_, chunk_latch_, locals, ret,
                   held, last, run>>

\* alloc's default argument: bool alloc_when_exhausted = true
DefaultArg == TRUE

\* Mutant of AllocAsCall: alloc_as calls alloc(false).
AllocAsCall_NoGrow(t) ==
    /\ pc[t] = "idle"
    /\ op' = [op EXCEPT ![t] = "alloc_as"]
    /\ alloc_when_exhausted' = [alloc_when_exhausted EXCEPT ![t] = FALSE]
    /\ UNCHANGED <<ptr, owned, stuck>>
    /\ overlap' = [overlap EXCEPT ![t] = {u \in Workers \ {t} : PreSplice(u)}]
    /\ pc' = [pc EXCEPT ![t] = "a_lock"]
    /\ touched' = FALSE
    /\ UNCHANGED <<params, others, chunks_, head_, mem, heap, node_latch_, chunk_latch_, locals, ret,
                   held, last, run>>

\* A client calls alloc_as<T>() for a T with sizeof(T) <= item_size (the static_assert):
\* return reinterpret_cast<T*>(alloc()), alloc running with its default argument.
AllocAsCall(t) ==
    /\ pc[t] = "idle"
    /\ op' = [op EXCEPT ![t] = "alloc_as"]
    /\ alloc_when_exhausted' = [alloc_when_exhausted EXCEPT ![t] = DefaultArg]
    /\ UNCHANGED <<ptr, owned, stuck>>
    /\ overlap' = [overlap EXCEPT ![t] = {u \in Workers \ {t} : PreSplice(u)}]
    /\ pc' = [pc EXCEPT ![t] = "a_lock"]
    /\ touched' = FALSE
    /\ UNCHANGED <<params, others, chunks_, head_, mem, heap, node_latch_, chunk_latch_, locals, ret,
                   held, last, run>>

\* Mutant of AllocLock: the latch is taken without waiting for its holder.
AllocLock_NoWait(t) ==
    /\ pc[t] = "a_lock"
    /\ node_latch_' = t
    /\ pc' = [pc EXCEPT ![t] = "a_check"]
    /\ touched' = FALSE
    /\ UNCHANGED <<env, others, notes, chunks_, head_, mem, heap, chunk_latch_, op, args, locals, ret,
                   held, last, run>>

\* std::unique_lock nl(node_latch_)
AllocLock(t) ==
    /\ pc[t] = "a_lock"
    /\ node_latch_ = NoThread
    /\ node_latch_' = t
    /\ pc' = [pc EXCEPT ![t] = "a_check"]
    /\ touched' = FALSE
    /\ UNCHANGED <<env, others, notes, chunks_, head_, mem, heap, chunk_latch_, op, args, locals, ret,
                   held, last, run>>

\* Mutant of AllocCheck: alloc(true) grows the pool already when head_ is the last free slot.
AllocCheck_GrowAhead(t) ==
    /\ pc[t] = "a_check"
    /\ IF head_ # NULL /\ ~(alloc_when_exhausted[t] /\ head_ \in DOMAIN mem /\ mem[head_] = NULL)
       THEN /\ pc' = [pc EXCEPT ![t] = "a_pop"]
            /\ UNCHANGED <<node_latch_, ret, last, run>>
       ELSE IF alloc_when_exhausted[t]
       THEN /\ pc' = [pc EXCEPT ![t] = "i_build"]
            /\ last' = <<"grow", IF last = <<"threw", 1, 0>> THEN 1 ELSE 0, Len(chunks_)>>
            /\ run' = NoRun
            /\ UNCHANGED <<node_latch_, ret>>
       ELSE /\ pc' = [pc EXCEPT ![t] = "a_ret"]
            /\ ret' = [ret EXCEPT ![t] = NULL]
            /\ node_latch_' = NoThread
            /\ last' = AfterAlloc(t)
            /\ run' = NoRun
    /\ touched' = FALSE
    /\ UNCHANGED <<env, others, notes, chunks_, head_, mem, heap, chunk_latch_, op, args, locals, held>>

\* Mutant of AllocCheck: returning nullptr leaves node_latch_ locked.
AllocCheck_KeepLatch(t) ==
    /\ pc[t] = "a_check"
    /\ IF head_ # NULL
       THEN /\ pc' = [pc EXCEPT ![t] = "a_pop"]
            /\ UNCHANGED <<node_latch_, ret, last, run>>
       ELSE IF alloc_when_exhausted[t]
       THEN /\ pc' = [pc EXCEPT ![t] = "i_build"]
            /\ last' = <<"grow", IF last = <<"threw", 1, 0>> THEN 1 ELSE 0, Len(chunks_)>>
            /\ run' = NoRun
            /\ UNCHANGED <<node_latch_, ret>>
       ELSE /\ pc' = [pc EXCEPT ![t] = "a_ret"]
            /\ ret' = [ret EXCEPT ![t] = NULL]
            /\ node_latch_' = node_latch_
            /\ last' = AfterAlloc(t)
            /\ run' = NoRun
    /\ touched' = FALSE
    /\ UNCHANGED <<env, others, notes, chunks_, head_, mem, heap, chunk_latch_, op, args, locals, held>>

\* Mutant of AllocCheck: the alloc_when_exhausted flag is ignored, an empty list always grows.
AllocCheck_IgnoreFlag(t) ==
    /\ pc[t] = "a_check"
    /\ IF head_ # NULL
       THEN /\ pc' = [pc EXCEPT ![t] = "a_pop"]
            /\ UNCHANGED <<node_latch_, ret, last, run>>
       ELSE IF TRUE
       THEN /\ pc' = [pc EXCEPT ![t] = "i_build"]
            /\ last' = <<"grow", IF last = <<"threw", 1, 0>> THEN 1 ELSE 0, Len(chunks_)>>
            /\ run' = NoRun
            /\ UNCHANGED <<node_latch_, ret>>
       ELSE /\ pc' = [pc EXCEPT ![t] = "a_ret"]
            /\ ret' = [ret EXCEPT ![t] = NULL]
            /\ node_latch_' = NoThread
            /\ last' = AfterAlloc(t)
            /\ run' = NoRun
    /\ touched' = FALSE
    /\ UNCHANGED <<env, others, notes, chunks_, head_, mem, heap, chunk_latch_, op, args, locals, held>>

\* Mutant of AllocCheck: alloc(true) grows the pool whether or not the list is empty.
AllocCheck_EagerGrow(t) ==
    /\ pc[t] = "a_check"
    /\ IF head_ # NULL /\ ~alloc_when_exhausted[t]
       THEN /\ pc' = [pc EXCEPT ![t] = "a_pop"]
            /\ UNCHANGED <<node_latch_, ret, last, run>>
       ELSE IF alloc_when_exhausted[t]
       THEN /\ pc' = [pc EXCEPT ![t] = "i_build"]
            /\ last' = <<"grow", IF last = <<"threw", 1, 0>> THEN 1 ELSE 0, Len(chunks_)>>
            /\ run' = NoRun
            /\ UNCHANGED <<node_latch_, ret>>
       ELSE /\ pc' = [pc EXCEPT ![t] = "a_ret"]
            /\ ret' = [ret EXCEPT ![t] = NULL]
            /\ node_latch_' = NoThread
            /\ last' = AfterAlloc(t)
            /\ run' = NoRun
    /\ touched' = FALSE
    /\ UNCHANGED <<env, others, notes, chunks_, head_, mem, heap, chunk_latch_, op, args, locals, held>>

\* Mutant of AllocCheck: node_latch_ is released before alloc_chunk_impl is entered.
AllocCheck_Unlock(t) ==
    /\ pc[t] = "a_check"
    /\ IF head_ # NULL
       THEN /\ pc' = [pc EXCEPT ![t] = "a_pop"]
            /\ UNCHANGED <<node_latch_, ret, last, run>>
       ELSE IF alloc_when_exhausted[t]
       THEN /\ pc' = [pc EXCEPT ![t] = "i_build"]
            /\ last' = <<"grow", IF last = <<"threw", 1, 0>> THEN 1 ELSE 0, Len(chunks_)>>
            /\ run' = NoRun
            /\ node_latch_' = NoThread
            /\ UNCHANGED ret
       ELSE /\ pc' = [pc EXCEPT ![t] = "a_ret"]
            /\ ret' = [ret EXCEPT ![t] = NULL]
            /\ node_latch_' = NoThread
            /\ last' = AfterAlloc(t)
            /\ run' = NoRun
    /\ touched' = FALSE
    /\ UNCHANGED <<env, others, notes, chunks_, head_, mem, heap, chunk_latch_, op, args, locals, held>>

\* if (!head_) { if (alloc_when_exhausted) alloc_chunk_impl() ... else return nullptr; }
\* The latch stays held on the way into alloc_chunk_impl; returning nullptr releases it.
AllocCheck(t) ==
    /\ pc[t] = "a_check"
    /\ IF head_ # NULL
       THEN /\ pc' = [pc EXCEPT ![t] = "a_pop"]
            /\ UNCHANGED <<node_latch_, ret, last, run>>
       ELSE IF alloc_when_exhausted[t]
       THEN /\ pc' = [pc EXCEPT ![t] = "i_build"]
            /\ last' = <<"grow", IF last = <<"threw", 1, 0>> THEN 1 ELSE 0, Len(chunks_)>>
            /\ run' = NoRun
            /\ UNCHANGED <<node_latch_, ret>>
       ELSE /\ pc' = [pc EXCEPT ![t] = "a_ret"]
            /\ ret' = [ret EXCEPT ![t] = NULL]
            /\ node_latch_' = NoThread
            /\ last' = AfterAlloc(t)
            /\ run' = NoRun
    /\ touched' = FALSE
    /\ UNCHANGED <<env, others, notes, chunks_, head_, mem, heap, chunk_latch_, op, args, locals, held>>

\* Mutant of AllocBack: chunks_.front() is taken for chunks_.back().
AllocBack_Front(t) ==
    /\ pc[t] = "a_back"
    /\ \E b \in {chunks_[1]} : head_' = b
    /\ pc' = [pc EXCEPT ![t] = "a_pop"]
    /\ last' = IF last[1] = "grow" THEN <<"drain", 0, last[3]>> ELSE <<"none", 0, 0>>
    /\ run' = NoRun
    /\ touched' = FALSE
    /\ UNCHANGED <<env, others, notes, chunks_, mem, heap, node_latch_, chunk_latch_, op, args, locals,
                   ret, held>>

\* head_ = reinterpret_cast<mem_node*>(chunks_.back().get()), read without chunk_latch_
AllocBack(t) ==
    /\ pc[t] = "a_back"
    /\ \E b \in Back(t) : head_' = b
    /\ pc' = [pc EXCEPT ![t] = "a_pop"]
    /\ last' = IF last[1] = "grow" THEN <<"drain", 0, last[3]>> ELSE <<"none", 0, 0>>
    /\ run' = NoRun
    /\ touched' = FALSE
    /\ UNCHANGED <<env, others, notes, chunks_, mem, heap, node_latch_, chunk_latch_, op, args, locals,
                   ret, held>>

\* Mutant of AllocPop: head_ is not advanced.
AllocPop_NoAdvance(t) ==
    /\ pc[t] = "a_pop"
    /\ IF head_ \in DOMAIN mem
       THEN /\ head_' = head_
            /\ ret' = [ret EXCEPT ![t] = head_]
            /\ node_latch_' = NoThread
            /\ pc' = [pc EXCEPT ![t] = "a_ret"]
       ELSE /\ pc' = [u \in Workers |-> "abort"]
            /\ UNCHANGED <<head_, ret, node_latch_>>
    /\ last' = AfterAlloc(t)
    /\ run' = AfterPop(t)
    /\ touched' = (head_ \in Live)
    /\ UNCHANGED <<env, others, notes, chunks_, mem, heap, chunk_latch_, op, args, locals, held>>

\* auto ptr = head_; head_ = head_->next_; return ptr (the unique_lock releases node_latch_).
\* A head_ that is no slot can only be a client's tag, a small integer that a client stored
\* in a slot still on the free list: reading through it is a fault that ends the
\* process, which stops every thread.
AllocPop(t) ==
    /\ pc[t] = "a_pop"
    /\ IF head_ \in DOMAIN mem
       THEN /\ head_' = mem[head_]
            /\ ret' = [ret EXCEPT ![t] = head_]
            /\ node_latch_' = NoThread
            /\ pc' = [pc EXCEPT ![t] = "a_ret"]
       ELSE /\ pc' = [u \in Workers |-> "abort"]
            /\ UNCHANGED <<head_, ret, node_latch_>>
    /\ last' = AfterAlloc(t)
    /\ run' = AfterPop(t)
    /\ touched' = (head_ \in Live)
    /\ UNCHANGED <<env, others, notes, chunks_, mem, heap, chunk_latch_, op, args, locals, held>>

\* The client takes alloc's result: on a slot it stores its tag in it and keeps the pointer
\* (ptrs.push_back(ptr); *p = tid); on nullptr or an exception it keeps nothing.
CallerTake(t) ==
    /\ pc[t] = "a_ret"
    /\ IF ret[t] \in {NULL, BadAlloc}
       THEN UNCHANGED <<mem, held>>
       ELSE /\ mem' = [mem EXCEPT ![ret[t]] = Tag(t)]
            /\ held' = [held EXCEPT ![t] = @ (+) SetToBag({ret[t]})]
    /\ ret' = [ret EXCEPT ![t] = NULL]
    /\ op' = [op EXCEPT ![t] = "none"]
    /\ alloc_when_exhausted' = [alloc_when_exhausted EXCEPT ![t] = FALSE]
    /\ UNCHANGED <<ptr, notes>>
    /\ pc' = [pc EXCEPT ![t] = "idle"]
    /\ touched' = FALSE
    /\ UNCHANGED <<env, others, chunks_, head_, heap, node_latch_, chunk_latch_, locals, last, run>>

\* --------------------------------------------- debug_check_free_align
\* Mutant of InSnapshot: the range check lets the address one past the chunk through.
InSnapshot_PastEnd(p, snap) ==
    \E i \in 1 .. Len(snap) :
        /\ p >= snap[i]
        /\ p <= snap[i] + chunk_size
        /\ (p - snap[i]) % item_size = 0

\* Mutant of InSnapshot: the alignment check is left out.
InSnapshot_NoAlign(p, snap) ==
    \E i \in 1 .. Len(snap) :
        /\ p >= snap[i]
        /\ p < snap[i] + chunk_size

\* ptr >= c && ptr < c + chunk_size, and (ptr - c) % item_size == 0, for some c of the snapshot
InSnapshot(p, snap) ==
    \E i \in 1 .. Len(snap) :
        /\ p >= snap[i]
        /\ p < snap[i] + chunk_size
        /\ (p - snap[i]) % item_size = 0

\* std::unique_lock cl(chunk_latch_)
DebugLock(t) ==
    /\ pc[t] = "f_vlock"
    /\ chunk_latch_ = NoThread
    /\ chunk_latch_' = t
    /\ pc' = [pc EXCEPT ![t] = "f_snap"]
    /\ touched' = FALSE
    /\ UNCHANGED <<env, others, notes, chunks_, head_, mem, heap, node_latch_, op, args, locals, ret,
                   held, last, run>>

\* Mutant of DebugSnapshot: the latch is still held when the scan starts.
DebugSnapshot_KeepLatch(t) ==
    /\ pc[t] = "f_snap"
    /\ snapshot' = [snapshot EXCEPT ![t] = chunks_]
    /\ pc' = [pc EXCEPT ![t] = "f_scan"]
    /\ touched' = FALSE
    /\ UNCHANGED <<env, others, notes, chunks_, head_, mem, heap, node_latch_, chunk_latch_, op,
                   args, tail_node, new_chunk, ret, held, last, run>>

\* Mutant of DebugSnapshot: the copy loop stops one chunk early.
DebugSnapshot_Short(t) ==
    /\ pc[t] = "f_snap"
    /\ snapshot' = [snapshot EXCEPT ![t] = SubSeq(chunks_, 1, Len(chunks_) - 1)]
    /\ chunk_latch_' = NoThread
    /\ pc' = [pc EXCEPT ![t] = "f_scan"]
    /\ touched' = FALSE
    /\ UNCHANGED <<env, others, notes, chunks_, head_, mem, heap, node_latch_, op, args, tail_node,
                   new_chunk, ret, held, last, run>>

\* the loop copying chunks_ into snapshot; cl.unlock()
DebugSnapshot(t) ==
    /\ pc[t] = "f_snap"
    /\ snapshot' = [snapshot EXCEPT ![t] = chunks_]
    /\ chunk_latch_' = NoThread
    /\ pc' = [pc EXCEPT ![t] = "f_scan"]
    /\ touched' = FALSE
    /\ UNCHANGED <<env, others, notes, chunks_, head_, mem, heap, node_latch_, op, args, tail_node,
                   new_chunk, ret, held, last, run>>

\* Mutant of DebugScan: a pointer that is already on the free list fails the check.
DebugScan_RejectsFree(t) ==
    /\ pc[t] = "f_scan"
    /\ pc' = IF InSnapshot(ptr[t], snapshot[t]) /\ ptr[t] \notin FreeSet
             THEN [pc EXCEPT ![t] = "f_lock"]
             ELSE [u \in Workers |-> "abort"]
    /\ snapshot' = [snapshot EXCEPT ![t] = <<>>]
    /\ touched' = FALSE
    /\ UNCHANGED <<env, others, notes, chunks_, head_, mem, heap, node_latch_, chunk_latch_, op, args,
                   tail_node, new_chunk, ret, held, last, run>>

\* the scan of the snapshot and free's assert on its result: a failed assert aborts the
\* process, which stops every thread
DebugScan(t) ==
    /\ pc[t] = "f_scan"
    /\ pc' = IF InSnapshot(ptr[t], snapshot[t])
             THEN [pc EXCEPT ![t] = "f_lock"]
             ELSE [u \in Workers |-> "abort"]
    /\ snapshot' = [snapshot EXCEPT ![t] = <<>>]
    /\ touched' = FALSE
    /\ UNCHANGED <<env, others, notes, chunks_, head_, mem, heap, node_latch_, chunk_latch_, op, args,
                   tail_node, new_chunk, ret, held, last, run>>

\* --------------------------------------------------------------- free
\* A client calls free(p) on a slot it holds and gives the slot up.
FreeCall(t, p) ==
    /\ pc[t] = "idle"
    /\ BagIn(p, held[t])
    /\ held' = [held EXCEPT ![t] = @ (-) SetToBag({p})]
    /\ op' = [op EXCEPT ![t] = "free"]
    /\ ptr' = [ptr EXCEPT ![t] = p]
    /\ owned' = [owned EXCEPT ![t] = TRUE]
    /\ UNCHANGED stuck
    /\ overlap' = [overlap EXCEPT ![t] = {u \in Workers \ {t} : PreSplice(u)}]
    /\ pc' = [pc EXCEPT ![t] = "f_vlock"]
    /\ touched' = FALSE
    /\ UNCHANGED <<params, others, chunks_, head_, mem, heap, node_latch_, chunk_latch_,
                   alloc_when_exhausted, locals, ret, last, run>>

\* The pointers a client can pass to free: nullptr, small integers, and every address from
\* the first chunk to the end of the heap, slot or not.
Addrs == 0 .. HeapBase(MaxChunks)

\* A client calls free(p) with any pointer: a slot it holds, a slot it freed before, an address
\* inside a slot, an address outside every chunk.
FreeAnyCall(t, p) ==
    /\ pc[t] = "idle"
    /\ held' = [held EXCEPT ![t] = @ (-) SetToBag({p})]
    /\ op' = [op EXCEPT ![t] = "free"]
    /\ ptr' = [ptr EXCEPT ![t] = p]
    /\ owned' = [owned EXCEPT ![t] = BagIn(p, held[t])]
    /\ UNCHANGED stuck
    /\ overlap' = [overlap EXCEPT ![t] = {u \in Workers \ {t} : PreSplice(u)}]
    /\ pc' = [pc EXCEPT ![t] = "f_vlock"]
    /\ touched' = FALSE
    /\ UNCHANGED <<params, others, chunks_, head_, mem, heap, node_latch_, chunk_latch_,
                   alloc_when_exhausted, locals, ret, last, run>>

\* node->next_ = head_ stores a pointer at node.  Inside a chunk the store lands.  At an
\* address the validator lets through although fewer than sizeof(mem_node*) bytes of the
\* chunk are left behind it, the store runs past the end of the chunk: it lands in the
\* allocator's padding, or it ends the process.
StoreOutcomes(p) ==
    IF \E i \in 1 .. Len(chunks_) : p >= chunks_[i] /\ p + PtrSize <= chunks_[i] + chunk_size
    THEN {TRUE}
    ELSE {TRUE, FALSE}

\* Mutant of FreeLock: free takes node_latch_ without waiting for its holder.
FreeLock_NoWait(t) ==
    /\ pc[t] = "f_lock"
    /\ node_latch_' = t
    /\ pc' = [pc EXCEPT ![t] = "f_push"]
    /\ touched' = FALSE
    /\ UNCHANGED <<env, others, notes, chunks_, head_, mem, heap, chunk_latch_, op, args, locals, ret,
                   held, last, run>>

\* std::unique_lock nl(node_latch_)
FreeLock(t) ==
    /\ pc[t] = "f_lock"
    /\ node_latch_ = NoThread
    /\ node_latch_' = t
    /\ pc' = [pc EXCEPT ![t] = "f_push"]
    /\ touched' = FALSE
    /\ UNCHANGED <<env, others, notes, chunks_, head_, mem, heap, chunk_latch_, op, args, locals, ret,
                   held, last, run>>

\* Mutant of FreePush: a node that is head_ already is not linked to itself but ends the list.
FreePush_NoSelfLink(t) ==
    /\ pc[t] = "f_push"
    /\ \E landed \in StoreOutcomes(ptr[t]) :
        IF landed
        THEN /\ mem' = (ptr[t] :> (IF head_ = ptr[t] THEN NULL ELSE head_)) @@ mem
             /\ head_' = ptr[t]
             /\ node_latch_' = NoThread
             /\ last' = <<"free", ptr[t], 0>>
             /\ run' = AfterFree(t)
             /\ op' = [op EXCEPT ![t] = "none"]
             /\ ptr' = [ptr EXCEPT ![t] = NULL]
             /\ owned' = [owned EXCEPT ![t] = FALSE]
             /\ stuck' = IF ptr[t] = head_ THEN ptr[t] ELSE NULL
             /\ pc' = [pc EXCEPT ![t] = "idle"]
        ELSE /\ pc' = [u \in Workers |-> "abort"]
             /\ UNCHANGED <<mem, head_, node_latch_, last, run, op, ptr, owned, stuck>>
    /\ touched' = (ptr[t] \in Live)
    /\ UNCHANGED <<env, others, overlap, chunks_, heap, chunk_latch_, alloc_when_exhausted, locals, ret,
                   held>>

\* Mutant of FreePush: on a non-empty list the node is linked in behind the head.
FreePush_Behind(t) ==
    /\ pc[t] = "f_push"
    /\ \E landed \in StoreOutcomes(ptr[t]) :
        IF landed
        THEN /\ mem' = IF head_ \in DOMAIN mem
                       THEN (ptr[t] :> mem[head_]) @@ [mem EXCEPT ![head_] = ptr[t]]
                       ELSE (ptr[t] :> head_) @@ mem
             /\ head_' = IF head_ \in DOMAIN mem THEN head_ ELSE ptr[t]
             /\ node_latch_' = NoThread
             /\ last' = <<"free", ptr[t], 0>>
             /\ run' = AfterFree(t)
             /\ op' = [op EXCEPT ![t] = "none"]
             /\ ptr' = [ptr EXCEPT ![t] = NULL]
             /\ owned' = [owned EXCEPT ![t] = FALSE]
             /\ stuck' = IF ptr[t] = head_ THEN ptr[t] ELSE NULL
             /\ pc' = [pc EXCEPT ![t] = "idle"]
        ELSE /\ pc' = [u \in Workers |-> "abort"]
             /\ UNCHANGED <<mem, head_, node_latch_, last, run, op, ptr, owned, stuck>>
    /\ touched' = (ptr[t] \in Live)
    /\ UNCHANGED <<env, others, overlap, chunks_, heap, chunk_latch_, alloc_when_exhausted, locals, ret,
                   held>>

\* Mutant of FreePush: the node is linked but head_ = node is forgotten.
FreePush_KeepHead(t) ==
    /\ pc[t] = "f_push"
    /\ \E landed \in StoreOutcomes(ptr[t]) :
        IF landed
        THEN /\ mem' = (ptr[t] :> head_) @@ mem
             /\ head_' = head_
             /\ node_latch_' = NoThread
             /\ last' = <<"free", ptr[t], 0>>
             /\ run' = AfterFree(t)
             /\ op' = [op EXCEPT ![t] = "none"]
             /\ ptr' = [ptr EXCEPT ![t] = NULL]
             /\ owned' = [owned EXCEPT ![t] = FALSE]
             /\ stuck' = IF ptr[t] = head_ THEN ptr[t] ELSE NULL
             /\ pc' = [pc EXCEPT ![t] = "idle"]
        ELSE /\ pc' = [u \in Workers |-> "abort"]
             /\ UNCHANGED <<mem, head_, node_latch_, last, run, op, ptr, owned, stuck>>
    /\ touched' = (ptr[t] \in Live)
    /\ UNCHANGED <<env, others, overlap, chunks_, heap, chunk_latch_, alloc_when_exhausted, locals, ret,
                   held>>

\* node->next_ = head_; head_ = node; return (the unique_lock releases node_latch_)
\* A store that does not land ends the process, which stops every thread.
FreePush(t) ==
    /\ pc[t] = "f_push"
    /\ \E landed \in StoreOutcomes(ptr[t]) :
        IF landed
        THEN /\ mem' = (ptr[t] :> head_) @@ mem
             /\ head_' = ptr[t]
             /\ node_latch_' = NoThread
             /\ last' = <<"free", ptr[t], 0>>
             /\ run' = AfterFree(t)
             /\ op' = [op EXCEPT ![t] = "none"]
             /\ ptr' = [ptr EXCEPT ![t] = NULL]
             /\ owned' = [owned EXCEPT ![t] = FALSE]
             /\ stuck' = IF ptr[t] = head_ THEN ptr[t] ELSE NULL
             /\ pc' = [pc EXCEPT ![t] = "idle"]
        ELSE /\ pc' = [u \in Workers |-> "abort"]
             /\ UNCHANGED <<mem, head_, node_latch_, last, run, op, ptr, owned, stuck>>
    /\ touched' = (ptr[t] \in Live)
    /\ UNCHANGED <<env, others, overlap, chunks_, heap, chunk_latch_, alloc_when_exhausted, locals, ret,
                   held>>

\* ---------------------------------------------------- alloc_new_chunk
\* Mutant of NewChunkCall: node_latch_ is taken before alloc_chunk_impl is entered.
NewChunkCall_LockFirst(t) ==
    /\ pc[t] = "idle"
    /\ node_latch_ = NoThread
    /\ node_latch_' = t
    /\ op' = [op EXCEPT ![t] = "alloc_new_chunk"]
    /\ pc' = [pc EXCEPT ![t] = "i_build"]
    /\ touched' = FALSE
    /\ UNCHANGED <<params, others, notes, chunks_, head_, mem, heap, chunk_latch_, args,
                   locals, ret, held, last, run>>

\* A client calls alloc_new_chunk(), which starts with alloc_chunk_impl().
NewChunkCall(t) ==
    /\ pc[t] = "idle"
    /\ op' = [op EXCEPT ![t] = "alloc_new_chunk"]
    /\ pc' = [pc EXCEPT ![t] = "i_build"]
    /\ touched' = FALSE
    /\ UNCHANGED <<params, others, notes, chunks_, head_, mem, heap, node_latch_, chunk_latch_, args,
                   locals, ret, held, last, run>>

\* std::unique_lock nl(node_latch_)
NewChunkLock(t) ==
    /\ pc[t] = "n_lock"
    /\ node_latch_ = NoThread
    /\ node_latch_' = t
    /\ pc' = [pc EXCEPT ![t] = "n_splice"]
    /\ touched' = FALSE
    /\ UNCHANGED <<env, others, notes, chunks_, head_, mem, heap, chunk_latch_, op, args, locals, ret,
                   held, last, run>>

\* Mutant of NewChunkSplice: the new tail is not linked to the old head_.
NewChunkSplice_NoLink(t) ==
    /\ pc[t] = "n_splice"
    /\ mem' = mem
    /\ \E b \in Back(t) : head_' = b
    /\ node_latch_' = NoThread
    /\ last' = <<"none", 0, 0>>
    /\ run' = NoRun
    /\ touched' = (head_ # NULL /\ tail_node[t] \in Live)
    /\ tail_node' = [tail_node EXCEPT ![t] = NULL]
    /\ op' = [op EXCEPT ![t] = "none"]
    /\ pc' = [pc EXCEPT ![t] = "idle"]
    /\ UNCHANGED <<env, others, notes, chunks_, heap, chunk_latch_, args, new_chunk, snapshot, ret, held>>

\* if (head_) new_tail->next_ = head_; head_ = chunks_.back().get() (read without
\* chunk_latch_); return (the unique_lock releases node_latch_)
NewChunkSplice(t) ==
    /\ pc[t] = "n_splice"
    /\ mem' = IF head_ # NULL THEN [mem EXCEPT ![tail_node[t]] = head_] ELSE mem
    /\ \E b \in Back(t) : head_' = b
    /\ node_latch_' = NoThread
    /\ last' = <<"none", 0, 0>>
    /\ run' = NoRun
    /\ touched' = (head_ # NULL /\ tail_node[t] \in Live)
    /\ tail_node' = [tail_node EXCEPT ![t] = NULL]
    /\ op' = [op EXCEPT ![t] = "none"]
    /\ pc' = [pc EXCEPT ![t] = "idle"]
    /\ UNCHANGED <<env, others, notes, chunks_, heap, chunk_latch_, args, new_chunk, snapshot, ret, held>>

\* t stands at a statement that reads or writes chunks_: push_back (line 56), the snapshot
\* loop (lines 65-68), or chunks_.back() (lines 130 and 140).
AtChunkList(t) == pc[t] \in {"i_push", "f_snap", "a_back", "n_splice"}

\* ------------------------------------------------------ specifications
\* A call that counts against the bound on the number of calls.
Counted == calls < MaxCalls /\ calls' = calls + 1
\* The same for a thread that runs alone.
CountedSeq == calls < MaxCallsSeq /\ calls' = calls + 1
\* The same for a thread that passes any pointer to free.
CountedDbg == calls < MaxCallsDbg /\ calls' = calls + 1
\* The same for the short races.
CountedRace == calls < MaxCallsRace /\ calls' = calls + 1

\* fixed_mem_pool(0): no chunk is created and no link is written, and line 110 reads
\* chunks_[0] of the empty vector.  The read is outside the vector's storage: it ends the
\* process, or head_ gets whatever the read yields, null or any other value.
InitZero ==
    /\ item_size \in PtrSize .. MaxItemSize
    /\ chunk_size \in item_size .. MaxChunkSize
    /\ chunks_ = <<>>
    /\ mem = CtorLinks(0)
    /\ heap = 0
    /\ \E faulted \in BOOLEAN :
        /\ pc = [t \in Workers |-> IF faulted THEN "abort" ELSE "idle"]
        /\ head_ \in (IF faulted THEN {NULL} ELSE Addrs)
    /\ node_latch_ = NoThread
    /\ chunk_latch_ = NoThread
    /\ op = [t \in Workers |-> "none"]
    /\ alloc_when_exhausted = [t \in Workers |-> FALSE]
    /\ ptr = [t \in Workers |-> NULL]
    /\ tail_node = [t \in Workers |-> NULL]
    /\ new_chunk = [t \in Workers |-> NULL]
    /\ snapshot = [t \in Workers |-> <<>>]
    /\ ret = [t \in Workers |-> NULL]
    /\ held = [t \in Workers |-> EmptyBag]
    /\ owned = [t \in Workers |-> FALSE]
    /\ overlap = [t \in Workers |-> {}]
    /\ stuck = NULL
    /\ last = <<"init", 0, 0>>
    /\ run = NoRun
    /\ touched = FALSE
    /\ calls = 0
    /\ QueueInit /\ RingInit(0)

\* The steps every thread takes inside alloc, free and alloc_chunk_impl.
PoolStep(t) ==
    \/ AllocLock(t)
    \/ AllocCheck(t)
    \/ AllocBack(t)
    \/ AllocPop(t)
    \/ CallerTake(t)
    \/ ImplBuild(t)
    \/ ImplThrow(t)
    \/ ImplLock(t)
    \/ ImplPush(t)
    \/ DebugLock(t)
    \/ DebugSnapshot(t)
    \/ DebugScan(t)
    \/ FreeLock(t)
    \/ FreePush(t)

\* The steps of alloc_new_chunk after alloc_chunk_impl.
NewChunkStep(t) ==
    \/ NewChunkLock(t)
    \/ NewChunkSplice(t)

\* Threads calling alloc and free only (TestMemPool_ConcurrentTest, _ExpandPressureTest).
NextAF ==
    \E t \in Threads :
        \/ \E g \in BOOLEAN : AllocCall(t, g) /\ Counted
        \/ \E p \in DOMAIN mem : FreeCall(t, p) /\ Counted
        \/ PoolStep(t)

\* Threads calling alloc, free and alloc_new_chunk.
Next ==
    \E t \in Threads :
        \/ \E g \in BOOLEAN : AllocCall(t, g) /\ Counted
        \/ \E p \in DOMAIN mem : FreeCall(t, p) /\ Counted
        \/ NewChunkCall(t) /\ Counted
        \/ PoolStep(t)
        \/ NewChunkStep(t)

\* Threads calling alloc, free and alloc_new_chunk, a short race.
NextRace ==
    \E t \in Threads :
        \/ \E g \in BOOLEAN : AllocCall(t, g) /\ CountedRace
        \/ \E p \in DOMAIN mem : FreeCall(t, p) /\ CountedRace
        \/ NewChunkCall(t) /\ CountedRace
        \/ PoolStep(t)
        \/ NewChunkStep(t)

\* One thread calling alloc, alloc_as, free and alloc_new_chunk (the single-threaded tests).
NextSeq ==
    \E t \in {1} :
        \/ \E g \in BOOLEAN : AllocCall(t, g) /\ CountedSeq
        \/ AllocAsCall(t) /\ CountedSeq
        \/ \E p \in DOMAIN mem : FreeCall(t, p) /\ CountedSeq
        \/ NewChunkCall(t) /\ CountedSeq
        \/ PoolStep(t)
        \/ NewChunkStep(t)

\* One thread calling alloc and free, free with any pointer (a debug build: the assert of
\* free is compiled in).
NextDbg ==
    \E t \in {1} :
        \/ \E g \in BOOLEAN : AllocCall(t, g) /\ CountedDbg
        \/ \E p \in Addrs : FreeAnyCall(t, p) /\ CountedDbg
        \/ PoolStep(t)

\* A call that counts against the bound on the calls of threads that only allocate.
CountedGrow == calls < MaxCallsGrow /\ calls' = calls + 1

\* The steps a thread takes inside alloc.
AllocStep(t) ==
    \/ AllocLock(t)
    \/ AllocCheck(t)
    \/ AllocBack(t)
    \/ AllocPop(t)
    \/ CallerTake(t)
    \/ ImplBuild(t)
    \/ ImplThrow(t)
    \/ ImplLock(t)
    \/ ImplPush(t)

\* Threads that call alloc and free nothing (the allocating phase of
\* TestMemPool_ExpandPressureTest).
NextGrow ==
    \E t \in Threads :
        \/ \E g \in BOOLEAN : AllocCall(t, g) /\ CountedGrow
        \/ AllocStep(t)

\* A call that counts against the bound on the calls of the thread that frees slots twice.
CountedTwice == calls < MaxCallsTwice /\ calls' = calls + 1

\* One thread calling alloc and free, free with the address of any slot of the pool, whether
\* it holds the slot or not.
NextTwice ==
    \E t \in {1} :
        \/ \E g \in BOOLEAN : AllocCall(t, g) /\ CountedTwice
        \/ \E p \in DOMAIN mem : FreeAnyCall(t, p) /\ CountedTwice
        \/ PoolStep(t)

\* A call that counts against the bound on the calls of three threads.
CountedDelay == calls < MaxCallsDelay /\ calls' = calls + 1

\* Three threads calling alloc and free: one can free while another grows the pool and a
\* third pops or pushes a slot (the phases of TestMemPool_ExpandPressureTest overlapping).
NextDelay ==
    \E t \in Workers :
        \/ \E g \in BOOLEAN : AllocCall(t, g) /\ CountedDelay
        \/ \E p \in DOMAIN mem : FreeCall(t, p) /\ CountedDelay
        \/ PoolStep(t)

\* The scheduler lets every thread that can take a step of the call it is in take it in the
\* end; a thread waiting for a std::mutex gets it once the mutex stays free.
Fairness == \A t \in Threads : WF_vars(PoolStep(t) \/ NewChunkStep(t))

Spec == Init /\ [][Next]_vars
SpecFair == Init /\ [][Next]_vars /\ Fairness
SpecRace == Init /\ [][NextRace]_vars
SpecAF == Init /\ [][NextAF]_vars
SpecSeq == Init /\ [][NextSeq]_vars
SpecDbg == Init /\ [][NextDbg]_vars
SpecZero == InitZero /\ [][NextSeq]_vars
SpecTwice == Init /\ [][NextTwice]_vars
SpecGrow == Init /\ [][NextGrow]_vars
SpecDelay == Init /\ [][NextDelay]_vars

\* ===================================================== blocking_queue
Items == 1 .. MaxItem

\* The ranges bulk_push is given: the items 1, 2, ... in a row (as the test's 3, 4, ..., 8),
\* up to MaxBulk of them, the empty range included.
Bulks == {[i \in 1 .. n |-> ((i - 1) % MaxItem) + 1] : n \in 0 .. MaxBulk}

\* What a call returned: kind is "void", "item" (pop()), "true", "false", "count"
\* (bulk_try_pop) or "throw" (std::runtime_error); items are the items handed to the caller.
Result(k, xs) == [kind |-> k, items |-> xs]

\* A client calls a member function f of the queue with argument a; the call starts at the
\* function's std::unique_lock.
QueueCall(t, f, a, at) ==
    /\ qpc[t] = "idle"
    /\ qop' = [qop EXCEPT ![t] = f]
    /\ qarg' = [qarg EXCEPT ![t] = a]
    /\ qres' = [qres EXCEPT ![t] = Result("none", <<>>)]
    /\ qpc' = [qpc EXCEPT ![t] = at]
    /\ UNCHANGED <<pool, ring, dq_, mtx_, cv_, shutdown_, pushed, popped>>

PushCall(t, x) == QueueCall(t, "push", <<x>>, "p_lock")
EmplaceCall(t, x) == QueueCall(t, "emplace", <<x>>, "p_lock")
BulkPushCall(t, xs) == QueueCall(t, "bulk_push", xs, "b_lock")
PopCall(t) == QueueCall(t, "pop", <<>>, "c_lock")
PopOutCall(t) == QueueCall(t, "pop_out", <<>>, "c_lock")
TryPopCall(t) == QueueCall(t, "try_pop", <<>>, "t_lock")
BulkTryPopCall(t, m) == QueueCall(t, "bulk_try_pop", <<m>>, "k_lock")
ShutdownCall(t) == QueueCall(t, "shutdown", <<>>, "s_lock")

\* std::unique_lock<std::mutex> l(mtx_), the first statement of every member function, and
\* the re-lock with which cv_.wait returns.
QueueLock(t) ==
    /\ qpc[t] \in {"p_lock", "b_lock", "c_lock", "c_relock", "t_lock", "k_lock", "s_lock"}
    /\ mtx_ = NoThread
    /\ mtx_' = t
    /\ qpc' = [qpc EXCEPT ![t] =
                  CASE qpc[t] = "p_lock" -> "p_body"
                    [] qpc[t] = "b_lock" -> "b_body"
                    [] qpc[t] \in {"c_lock", "c_relock"} -> "c_test"
                    [] qpc[t] = "t_lock" -> "t_body"
                    [] qpc[t] = "k_lock" -> "k_body"
                    [] qpc[t] = "s_lock" -> "s_body"]
    /\ UNCHANGED <<pool, calls, ring, dq_, cv_, shutdown_, qop, qarg, qres, pushed, popped>>

\* The call of t ends with result r.
QueueReturn(t, r) ==
    /\ qres' = [qres EXCEPT ![t] = r]
    /\ qop' = [qop EXCEPT ![t] = "none"]
    /\ qarg' = [qarg EXCEPT ![t] = <<>>]

\* push and emplace under the lock: if (shutdown_) throw; dq_.push_back(item) or
\* dq_.emplace_back(args...); the block ends and releases mtx_.
PushBody(t) ==
    /\ qpc[t] = "p_body"
    /\ mtx_' = NoThread
    /\ IF shutdown_
       THEN /\ QueueReturn(t, Result("throw", <<>>))
            /\ qpc' = [qpc EXCEPT ![t] = "idle"]
            /\ UNCHANGED <<dq_, pushed>>
       ELSE /\ dq_' = Append(dq_, qarg[t][1])
            /\ pushed' = Append(pushed, qarg[t][1])
            /\ qpc' = [qpc EXCEPT ![t] = "p_notify"]
            /\ UNCHANGED <<qop, qarg, qres>>
    /\ UNCHANGED <<pool, calls, ring, cv_, shutdown_, popped>>

\* Mutant of PushNotify: push returns without notifying anybody.
PushNotify_Lost(t) ==
    /\ qpc[t] = "p_notify"
    /\ qpc' = [qpc EXCEPT ![t] = "idle"]
    /\ UNCHANGED cv_
    /\ QueueReturn(t, Result("void", <<>>))
    /\ UNCHANGED <<pool, calls, ring, dq_, mtx_, shutdown_, pushed, popped>>

\* cv_.notify_one(): one of the threads blocked in cv_.wait, if there is one, is woken.
PushNotify(t) ==
    /\ qpc[t] = "p_notify"
    /\ IF cv_ = {}
       THEN /\ qpc' = [qpc EXCEPT ![t] = "idle"]
            /\ UNCHANGED cv_
       ELSE \E w \in cv_ :
            /\ cv_' = cv_ \ {w}
            /\ qpc' = [qpc EXCEPT ![t] = "idle", ![w] = "c_relock"]
    /\ QueueReturn(t, Result("void", <<>>))
    /\ UNCHANGED <<pool, calls, ring, dq_, mtx_, shutdown_, pushed, popped>>

\* bulk_push under the lock: if (shutdown_) throw; push_back of every item of the range.
BulkPushBody(t) ==
    /\ qpc[t] = "b_body"
    /\ mtx_' = NoThread
    /\ IF shutdown_
       THEN /\ QueueReturn(t, Result("throw", <<>>))
            /\ qpc' = [qpc EXCEPT ![t] = "idle"]
            /\ UNCHANGED <<dq_, pushed>>
       ELSE /\ dq_' = dq_ \o qarg[t]
            /\ pushed' = pushed \o qarg[t]
            /\ qpc' = [qpc EXCEPT ![t] = "b_notify"]
            /\ UNCHANGED <<qop, qarg, qres>>
    /\ UNCHANGED <<pool, calls, ring, cv_, shutdown_, popped>>

\* cv_.notify_all(), of bulk_push and of shutdown: every thread blocked in cv_.wait is woken.
NotifyAll(t) ==
    /\ qpc[t] \in {"b_notify", "s_notify"}
    /\ cv_' = {}
    /\ qpc' = [u \in Workers |->
                  IF u = t THEN "idle" ELSE IF u \in cv_ THEN "c_relock" ELSE qpc[u]]
    /\ QueueReturn(t, Result("void", <<>>))
    /\ UNCHANGED <<pool, calls, ring, dq_, mtx_, shutdown_, pushed, popped>>

\* Mutant of PopTest: the front item is handed out but dq_.pop_front() is left out.
PopTest_KeepFront(t) ==
    /\ qpc[t] = "c_test"
    /\ mtx_' = NoThread
    /\ IF dq_ = <<>> /\ ~shutdown_
       THEN /\ cv_' = cv_ \cup {t}
            /\ qpc' = [qpc EXCEPT ![t] = "c_wait"]
            /\ UNCHANGED <<dq_, popped, qop, qarg, qres>>
       ELSE IF shutdown_
       THEN /\ QueueReturn(t, Result(IF qop[t] = "pop" THEN "throw" ELSE "false", <<>>))
            /\ qpc' = [qpc EXCEPT ![t] = "idle"]
            /\ UNCHANGED <<dq_, popped, cv_>>
       ELSE /\ dq_' = dq_
            /\ popped' = Append(popped, Head(dq_))
            /\ QueueReturn(t, Result(IF qop[t] = "pop" THEN "item" ELSE "true", <<Head(dq_)>>))
            /\ qpc' = [qpc EXCEPT ![t] = "idle"]
            /\ UNCHANGED cv_
    /\ UNCHANGED <<pool, calls, ring, shutdown_, pushed>>

\* pop() and pop(T&) under the lock: while (dq_.empty() && !shutdown_) cv_.wait(l), which
\* releases mtx_ and blocks in one step; if (shutdown_) throw or return false; else the
\* front item is moved out, dq_.pop_front(), and the item or true is returned.
PopTest(t) ==
    /\ qpc[t] = "c_test"
    /\ mtx_' = NoThread
    /\ IF dq_ = <<>> /\ ~shutdown_
       THEN /\ cv_' = cv_ \cup {t}
            /\ qpc' = [qpc EXCEPT ![t] = "c_wait"]
            /\ UNCHANGED <<dq_, popped, qop, qarg, qres>>
       ELSE IF shutdown_
       THEN /\ QueueReturn(t, Result(IF qop[t] = "pop" THEN "throw" ELSE "false", <<>>))
            /\ qpc' = [qpc EXCEPT ![t] = "idle"]
            /\ UNCHANGED <<dq_, popped, cv_>>
       ELSE /\ dq_' = Tail(dq_)
            /\ popped' = Append(popped, Head(dq_))
            /\ QueueReturn(t, Result(IF qop[t] = "pop" THEN "item" ELSE "true", <<Head(dq_)>>))
            /\ qpc' = [qpc EXCEPT ![t] = "idle"]
            /\ UNCHANGED cv_
    /\ UNCHANGED <<pool, calls, ring, shutdown_, pushed>>

\* cv_.wait returns without a notification (std::condition_variable allows spurious
\* wake-ups); the thread goes on to re-lock mtx_.
SpuriousWake(t) ==
    /\ qpc[t] = "c_wait"
    /\ t \in cv_
    /\ cv_' = cv_ \ {t}
    /\ qpc' = [qpc EXCEPT ![t] = "c_relock"]
    /\ UNCHANGED <<pool, calls, ring, dq_, mtx_, shutdown_, qop, qarg, qres, pushed, popped>>

\* Mutant of TryPopBody: only the empty queue makes try_pop return false.
TryPopBody_Open(t) ==
    /\ qpc[t] = "t_body"
    /\ mtx_' = NoThread
    /\ IF dq_ = <<>>
       THEN /\ QueueReturn(t, Result("false", <<>>))
            /\ UNCHANGED <<dq_, popped>>
       ELSE /\ dq_' = Tail(dq_)
            /\ popped' = Append(popped, Head(dq_))
            /\ QueueReturn(t, Result("true", <<Head(dq_)>>))
    /\ qpc' = [qpc EXCEPT ![t] = "idle"]
    /\ UNCHANGED <<pool, calls, ring, cv_, shutdown_, pushed>>

\* try_pop under the lock: if (dq_.empty() || shutdown_) return false; else as pop(T&).
TryPopBody(t) ==
    /\ qpc[t] = "t_body"
    /\ mtx_' = NoThread
    /\ IF dq_ = <<>> \/ shutdown_
       THEN /\ QueueReturn(t, Result("false", <<>>))
            /\ UNCHANGED <<dq_, popped>>
       ELSE /\ dq_' = Tail(dq_)
            /\ popped' = Append(popped, Head(dq_))
            /\ QueueReturn(t, Result("true", <<Head(dq_)>>))
    /\ qpc' = [qpc EXCEPT ![t] = "idle"]
    /\ UNCHANGED <<pool, calls, ring, cv_, shutdown_, pushed>>

Min(a, b) == IF a < b THEN a ELSE b

\* bulk_try_pop under the lock: if (shutdown_) return 0; else the loop moves the front item
\* out max_attempt times or until dq_ is empty, and the count is returned.
BulkTryPopBody(t) ==
    /\ qpc[t] = "k_body"
    /\ mtx_' = NoThread
    /\ IF shutdown_
       THEN /\ QueueReturn(t, Result("count", <<>>))
            /\ UNCHANGED <<dq_, popped>>
       ELSE LET cnt == Min(qarg[t][1], Len(dq_))
            IN  /\ dq_' = SubSeq(dq_, cnt + 1, Len(dq_))
                /\ popped' = popped \o SubSeq(dq_, 1, cnt)
                /\ QueueReturn(t, Result("count", SubSeq(dq_, 1, cnt)))
    /\ qpc' = [qpc EXCEPT ![t] = "idle"]
    /\ UNCHANGED <<pool, calls, ring, cv_, shutdown_, pushed>>

\* shutdown under the lock: shutdown_ = true; the block ends and releases mtx_.
ShutdownBody(t) ==
    /\ qpc[t] = "s_body"
    /\ shutdown_' = TRUE
    /\ mtx_' = NoThread
    /\ qpc' = [qpc EXCEPT ![t] = "s_notify"]
    /\ UNCHANGED <<pool, calls, ring, dq_, cv_, qop, qarg, qres, pushed, popped>>

\* The pool is not in use.
NoPool ==
    /\ item_size = PtrSize
    /\ chunk_size = PtrSize
    /\ chunks_ = <<>>
    /\ head_ = NULL
    /\ mem = CtorLinks(0)
    /\ heap = 0
    /\ node_latch_ = NoThread
    /\ chunk_latch_ = NoThread
    /\ pc = [t \in Workers |-> "idle"]
    /\ op = [t \in Workers |-> "none"]
    /\ alloc_when_exhausted = [t \in Workers |-> FALSE]
    /\ ptr = [t \in Workers |-> NULL]
    /\ tail_node = [t \in Workers |-> NULL]
    /\ new_chunk = [t \in Workers |-> NULL]
    /\ snapshot = [t \in Workers |-> <<>>]
    /\ ret = [t \in Workers |-> NULL]
    /\ held = [t \in Workers |-> EmptyBag]
    /\ owned = [t \in Workers |-> FALSE]
    /\ overlap = [t \in Workers |-> {}]
    /\ stuck = NULL
    /\ last = <<"init", 0, 0>>
    /\ run = NoRun
    /\ touched = FALSE

\* A blocking_queue after construction.
InitBQ == NoPool /\ calls = 0 /\ QueueInit /\ RingInit(0)

\* A call that counts against the bound on the number of calls of the queue.
CountedBQ == calls < MaxCallsBQ /\ calls' = calls + 1

\* The steps a thread takes inside a call of the queue.
QueueStep(t) ==
    \/ QueueLock(t)
    \/ PushBody(t)
    \/ PushNotify(t)
    \/ BulkPushBody(t)
    \/ NotifyAll(t)
    \/ PopTest(t)
    \/ TryPopBody(t)
    \/ BulkTryPopBody(t)
    \/ ShutdownBody(t)

\* Threads calling the queue: producers, consumers and shutdown.
NextBQ ==
    \E t \in Threads :
        \/ \E x \in Items : PushCall(t, x) /\ CountedBQ
        \/ \E x \in Items : EmplaceCall(t, x) /\ CountedBQ
        \/ \E xs \in Bulks : BulkPushCall(t, xs) /\ CountedBQ
        \/ PopCall(t) /\ CountedBQ
        \/ PopOutCall(t) /\ CountedBQ
        \/ TryPopCall(t) /\ CountedBQ
        \/ \E m \in 0 .. MaxBulk : BulkTryPopCall(t, m) /\ CountedBQ
        \/ ShutdownCall(t) /\ CountedBQ
        \/ QueueStep(t)
        \/ SpuriousWake(t) /\ UNCHANGED calls

\* The steps a thread takes inside push, pop and shutdown.
BlockStep(t) ==
    \/ QueueLock(t)
    \/ PushBody(t)
    \/ PushNotify(t)
    \/ PopTest(t)
    \/ ShutdownBody(t)
    \/ NotifyAll(t)

\* Threads that block in pop, threads that push, and shutdown (the blocking test).
NextBlock ==
    \E t \in Threads :
        \/ \E x \in Items : PushCall(t, x) /\ CountedBQ
        \/ PopCall(t) /\ CountedBQ
        \/ PopOutCall(t) /\ CountedBQ
        \/ ShutdownCall(t) /\ CountedBQ
        \/ BlockStep(t)
        \/ SpuriousWake(t) /\ UNCHANGED calls

\* The scheduler lets every thread that can take a step of its call take it in the end; a
\* thread blocked in cv_.wait is not owed a spurious wake-up.
FairnessBlock == \A t \in Threads : WF_vars(BlockStep(t))

\* A call that counts against the bound on the calls of the single thread.
CountedShut == calls < MaxCallsShut /\ calls' = calls + 1

\* One thread calling every member function of the queue, shutdown among them.
NextShut ==
    \E t \in {1} :
        \/ \E x \in Items : PushCall(t, x) /\ CountedShut
        \/ \E x \in Items : EmplaceCall(t, x) /\ CountedShut
        \/ \E xs \in Bulks : BulkPushCall(t, xs) /\ CountedShut
        \/ PopCall(t) /\ CountedShut
        \/ PopOutCall(t) /\ CountedShut
        \/ TryPopCall(t) /\ CountedShut
        \/ \E m \in 0 .. MaxBulk : BulkTryPopCall(t, m) /\ CountedShut
        \/ ShutdownCall(t) /\ CountedShut
        \/ QueueStep(t)
        \/ SpuriousWake(t) /\ UNCHANGED calls

SpecBQ == InitBQ /\ [][NextBQ]_vars
SpecShut == InitBQ /\ [][NextShut]_vars
SpecBlock == InitBQ /\ [][NextBlock]_vars /\ FairnessBlock

\* ===================================================== ring_buffer_spsc
\* What an atomic load of the other role's index can return to role r: the index's current
\* value, or an older one that is not older than what r's thread has seen already.  The
\* index moves forward by one modulo size_ and cannot lap what r has seen.
Loads(r, index) == {(known[r] + k) % size_ : k \in 0 .. ((index + size_ - known[r]) % size_)}

\* The producer calls push(item) or emplace(args...) (f names which); the item is the next
\* number in a row, as the test's writer pushes them.
RingPushCall(f) ==
    /\ rpc["prod"] = "idle"
    /\ rarg' = <<f, Len(rpushed) + 1>>
    /\ rres' = [rres EXCEPT !["prod"] = [kind |-> "none", out |-> NoItem]]
    /\ rpc' = [rpc EXCEPT !["prod"] = "w_load"]
    /\ UNCHANGED <<pool, queue, rb_head_, rb_tail_, size_, data_, cur, rpushed, rpopped>>

\* The consumer calls pop(out).
RingPopCall ==
    /\ rpc["cons"] = "idle"
    /\ rres' = [rres EXCEPT !["cons"] = [kind |-> "none", out |-> NoItem]]
    /\ rpc' = [rpc EXCEPT !["cons"] = "r_load"]
    /\ UNCHANGED <<pool, queue, rb_head_, rb_tail_, size_, data_, cur, rarg, rpushed, rpopped>>

\* The producer and the consumer are two threads: a call brings no news of the other's index.
TwoThreads == UNCHANGED known

\* The caller is one thread that plays both roles: a call begins when no other runs, and
\* the thread's own stores of head_ and tail_ are behind it.
OneThread ==
    /\ \A r \in Roles : rpc[r] = "idle"
    /\ known' = [known EXCEPT !["prod"] = rb_tail_, !["cons"] = rb_head_]

\* size_t cur_head = head_.load(relaxed): the producer's own index
PushLoad ==
    /\ rpc["prod"] = "w_load"
    /\ cur' = [cur EXCEPT !["prod"] = rb_head_]
    /\ rpc' = [rpc EXCEPT !["prod"] = "w_check"]
    /\ UNCHANGED <<pool, calls, queue, rb_head_, rb_tail_, size_, data_, known, rarg, rres,
                   rpushed, rpopped>>

\* PushCheck with the wrap-around of the next index left out of the test.
PushCheck_NoWrap ==
    /\ rpc["prod"] = "w_check"
    /\ \E tail \in Loads("prod", rb_tail_) :
        /\ known' = [known EXCEPT !["prod"] = tail]
        /\ IF cur["prod"] + 1 = tail
           THEN /\ rres' = [rres EXCEPT !["prod"] = [kind |-> "false", out |-> NoItem]]
                /\ rpc' = [rpc EXCEPT !["prod"] = "idle"]
           ELSE /\ rpc' = [rpc EXCEPT !["prod"] = "w_new"]
                /\ UNCHANGED rres
    /\ UNCHANGED <<pool, calls, queue, rb_head_, rb_tail_, size_, data_, cur, rarg, rpushed,
                   rpopped>>

\* if ((cur_head + 1) % size_ == tail_.load(acquire)) return false
PushCheck ==
    /\ rpc["prod"] = "w_check"
    /\ \E tail \in Loads("prod", rb_tail_) :
        /\ known' = [known EXCEPT !["prod"] = tail]
        /\ IF (cur["prod"] + 1) % size_ = tail
           THEN /\ rres' = [rres EXCEPT !["prod"] = [kind |-> "false", out |-> NoItem]]
                /\ rpc' = [rpc EXCEPT !["prod"] = "idle"]
           ELSE /\ rpc' = [rpc EXCEPT !["prod"] = "w_new"]
                /\ UNCHANGED rres
    /\ UNCHANGED <<pool, calls, queue, rb_head_, rb_tail_, size_, data_, cur, rarg, rpushed,
                   rpopped>>

\* ::new (data_ + cur_head * sizeof(T)) T(item)
PushNew ==
    /\ rpc["prod"] = "w_new"
    /\ data_' = [data_ EXCEPT ![cur["prod"]] = rarg[2]]
    /\ rpc' = [rpc EXCEPT !["prod"] = "w_store"]
    /\ UNCHANGED <<pool, calls, queue, rb_head_, rb_tail_, size_, cur, known, rarg, rres,
                   rpushed, rpopped>>

\* head_.store(next_head, release); return true
PushStore ==
    /\ rpc["prod"] = "w_store"
    /\ rb_head_' = (cur["prod"] + 1) % size_
    /\ rpushed' = Append(rpushed, rarg[2])
    /\ rres' = [rres EXCEPT !["prod"] = [kind |-> "true", out |-> NoItem]]
    /\ rpc' = [rpc EXCEPT !["prod"] = "idle"]
    /\ UNCHANGED <<pool, calls, queue, rb_tail_, size_, data_, cur, known, rarg, rpopped>>

\* size_t cur_tail = tail_.load(relaxed): the consumer's own index
PopLoad ==
    /\ rpc["cons"] = "r_load"
    /\ cur' = [cur EXCEPT !["cons"] = rb_tail_]
    /\ rpc' = [rpc EXCEPT !["cons"] = "r_check"]
    /\ UNCHANGED <<pool, calls, queue, rb_head_, rb_tail_, size_, data_, known, rarg, rres,
                   rpushed, rpopped>>

\* PopCheck with the test of push: the next index, not the current one, against head_.
PopCheck_NextIndex ==
    /\ rpc["cons"] = "r_check"
    /\ \E head \in Loads("cons", rb_head_) :
        /\ known' = [known EXCEPT !["cons"] = head]
        /\ IF (cur["cons"] + 1) % size_ = head
           THEN /\ rres' = [rres EXCEPT !["cons"] = [kind |-> "false", out |-> NoItem]]
                /\ rpc' = [rpc EXCEPT !["cons"] = "idle"]
           ELSE /\ rpc' = [rpc EXCEPT !["cons"] = "r_move"]
                /\ UNCHANGED rres
    /\ UNCHANGED <<pool, calls, queue, rb_head_, rb_tail_, size_, data_, cur, rarg, rpushed,
                   rpopped>>

\* if (cur_tail == head_.load(acquire)) return false
PopCheck ==
    /\ rpc["cons"] = "r_check"
    /\ \E head \in Loads("cons", rb_head_) :
        /\ known' = [known EXCEPT !["cons"] = head]
        /\ IF cur["cons"] = head
           THEN /\ rres' = [rres EXCEPT !["cons"] = [kind |-> "false", out |-> NoItem]]
                /\ rpc' = [rpc EXCEPT !["cons"] = "idle"]
           ELSE /\ rpc' = [rpc EXCEPT !["cons"] = "r_move"]
                /\ UNCHANGED rres
    /\ UNCHANGED <<pool, calls, queue, rb_head_, rb_tail_, size_, data_, cur, rarg, rpushed,
                   rpopped>>

\* out = std::move(*pos); pos->~T()
PopMove ==
    /\ rpc["cons"] = "r_move"
    /\ rres' = [rres EXCEPT !["cons"] = [kind |-> "none", out |-> data_[cur["cons"]]]]
    /\ data_' = [data_ EXCEPT ![cur["cons"]] = NoItem]
    /\ rpc' = [rpc EXCEPT !["cons"] = "r_store"]
    /\ UNCHANGED <<pool, calls, queue, rb_head_, rb_tail_, size_, cur, known, rarg, rpushed,
                   rpopped>>

\* tail_.store((cur_tail + 1) % size_, release); return true
PopStore ==
    /\ rpc["cons"] = "r_store"
    /\ rb_tail_' = (cur["cons"] + 1) % size_
    /\ rpopped' = Append(rpopped, rres["cons"].out)
    /\ rres' = [rres EXCEPT !["cons"] = [kind |-> "true", out |-> @.out]]
    /\ rpc' = [rpc EXCEPT !["cons"] = "idle"]
    /\ UNCHANGED <<pool, calls, queue, rb_head_, size_, data_, cur, known, rarg, rpushed>>

\* size(), empty() and full(), called while no push and no pop runs.
RingSize == (rb_head_ + size_ - rb_tail_) % size_
RingEmpty == rb_head_ = rb_tail_
RingFull == (rb_head_ + 1) % size_ = rb_tail_

\* A ring_buffer_spsc of size 0..MaxRing after construction.
InitRB == NoPool /\ calls = 0 /\ QueueInit /\ \E n \in 0 .. MaxRing : RingInit(n)

\* A call that counts against the bound on the number of calls of the ring buffer.
CountedRB == calls < MaxCallsRB /\ calls' = calls + 1

\* The steps inside push, emplace and pop.
RingStep ==
    \/ PushLoad
    \/ PushCheck
    \/ PushNew
    \/ PushStore
    \/ PopLoad
    \/ PopCheck
    \/ PopMove
    \/ PopStore

\* One producer thread and one consumer thread.
NextRB ==
    \/ \E f \in {"push", "emplace"} : RingPushCall(f) /\ CountedRB /\ TwoThreads
    \/ RingPopCall /\ CountedRB /\ TwoThreads
    \/ RingStep

\* One thread that pushes, emplaces and pops (the sanity test).
NextRBSeq ==
    \/ \E f \in {"push", "emplace"} :
          RingPushCall(f) /\ CountedRB /\ OneThread
    \/ RingPopCall /\ CountedRB /\ OneThread
    \/ RingStep

\* The number of items in the buffer: pushed and not popped yet.
Stored == Len(rpushed) - Len(rpopped)

\* head_, tail_ and the cells.
Buffer == <<rb_head_, rb_tail_, size_, data_>>

\* Role r takes a step of the call it is in.
Steps(r) == rpc[r] # "idle" /\ rpc'[r] # rpc[r]

\* Role r returns from its call with result k.
Returns(r, k) == rpc'[r] = "idle" => rres'[r].kind = k

SpecRB == InitRB /\ [][NextRB]_vars
SpecRBSeq == InitRB /\ [][NextRBSeq]_vars

\* ------------------------------------------------------------- claims
\* The number of live allocations of address a among the threads of S: the copies the
\* clients hold plus the results not taken yet.
RECURSIVE Copies(_, _)
Copies(a, S) ==
    IF S = {} THEN 0
    ELSE LET t == CHOOSE t \in S : TRUE
         IN  CopiesIn(a, held[t]) + (IF a \in Pending(t) THEN 1 ELSE 0) + Copies(a, S \ {t})

\* t takes a step of its own.
Moves(t) == pc'[t] # pc[t]

\* C1: with threads calling only alloc and free, no address is a live allocation twice
\* (neither of two callers nor twice of one).
NoAliasing == \A a \in DOMAIN mem : Copies(a, Threads) <= 1

\* C1 witness: both threads hold a live allocation at once, in a pool that has grown.
W_NoAliasing ==
    /\ \A t \in Threads : held[t] # EmptyBag
    /\ Len(chunks_) = MaxChunks

\* C2: with threads calling alloc, free and alloc_new_chunk, no slot is at once reachable from
\* head_ and allocated, and no slot is handed out twice.
FreeXorAllocated ==
    /\ FreeSet \cap Live = {}
    /\ \A a \in DOMAIN mem : Copies(a, Threads) <= 1

\* C3: on a fresh pool of c chunks, the first ItemsPerChunk * c calls of alloc(false) each
\* return a slot not handed out before, and the next call returns nullptr.
CapacityBound ==
    \A t \in Threads :
        (pc[t] = "a_ret" /\ last[1] = "init") =>
            LET k == last[2]
                n == ItemsPerChunk * Len(chunks_)
            IN  /\ k <= n + 1
                /\ k <= n => /\ ret[t] \in DOMAIN mem
                             /\ ~BagIn(ret[t], held[t])
                             /\ BagCardinality(held[t]) = k - 1
                /\ k = n + 1 => ret[t] = NULL

\* C3 witness: a pool of two chunks whose chunk_size is no multiple of item_size has handed
\* out all its slots and answers the next alloc(false) with nullptr.
W_CapacityBound ==
    \E t \in Threads :
        /\ pc[t] = "a_ret" /\ last[1] = "init" /\ ret[t] = NULL
        /\ Len(chunks_) = 2
        /\ chunk_size % item_size # 0
        /\ BagCardinality(held[t]) = 2 * ItemsPerChunk

\* C4: the pop of an alloc(false) that follows free(p) with no free-list operation in
\* between returns p.
ReuseAfterFree ==
    [][\A t \in Threads :
        (pc[t] = "a_pop" /\ Moves(t) /\ ~alloc_when_exhausted[t] /\ last[1] = "free")
            => (pc'[t] = "a_ret" /\ ret'[t] = last[2])]_vars

\* C4 witness: an alloc(false) has returned the slot freed just before it, with other
\* slots behind it on the free list.
W_ReuseAfterFree ==
    \E t \in Threads :
        /\ pc[t] = "a_ret" /\ last[1] = "reused" /\ ret[t] = last[2]
        /\ head_ # NULL

\* C5: alloc(false) on an empty free list returns nullptr, not an error, and leaves
\* head_ empty and the chunk list and the heap as they were.
ExhaustedIsEmptyResult ==
    [][\A t \in Threads :
        (pc[t] = "a_check" /\ Moves(t) /\ head_ = NULL /\ ~alloc_when_exhausted[t])
            => /\ pc'[t] = "a_ret"
               /\ ret'[t] = NULL
               /\ head_' = NULL
               /\ UNCHANGED <<chunks_, heap, mem, chunk_latch_>>
               /\ node_latch_' = NoThread]_vars

\* C5 witness: an alloc(false) has returned nullptr while every slot is allocated.
W_ExhaustedIsEmptyResult ==
    \E t \in Threads :
        /\ pc[t] = "a_ret" /\ ~alloc_when_exhausted[t] /\ ret[t] = NULL
        /\ head_ = NULL
        /\ Live # {}

\* C6: a single-threaded alloc(true) on an empty free list appends exactly one chunk and
\* returns its first slot; the next ItemsPerChunk - 1 calls of alloc(false) return its
\* further slots, one each, and the call after them returns nullptr.
GrowthDrain ==
    \A t \in Threads :
        (pc[t] = "a_ret" /\ last[1] = "drain") =>
            /\ Len(chunks_) = last[3] + 1
            /\ last[2] \in 1 .. ItemsPerChunk + 1
            /\ IF last[2] <= ItemsPerChunk
               THEN ret[t] = SlotAddr(Last(chunks_), last[2] - 1)
               ELSE ret[t] = NULL

\* C6 witness: a chunk of two slots appended by alloc(true) is drained and the alloc(false)
\* after that has returned nullptr.
W_GrowthDrain ==
    \E t \in Threads :
        /\ pc[t] = "a_ret" /\ last[1] = "drain" /\ last[2] = ItemsPerChunk + 1
        /\ ItemsPerChunk = 2
        /\ ret[t] = NULL

\* C7: alloc(true) on a non-empty free list goes straight to the pop, which returns the
\* head as for alloc(false); it appends no chunk and does not take chunk_latch_.
NoGrowthWhenNonEmpty ==
    [][\A t \in Threads :
        /\ (pc[t] = "a_check" /\ Moves(t) /\ head_ # NULL /\ alloc_when_exhausted[t])
              => (pc'[t] = "a_pop" /\ UNCHANGED <<chunks_, heap, head_, chunk_latch_>>)
        /\ (pc[t] = "a_pop" /\ Moves(t) /\ head_ \in DOMAIN mem)
              => (ret'[t] = head_ /\ UNCHANGED <<chunks_, heap, chunk_latch_>>)]_vars

\* C7 witness: alloc(true) has returned a slot of a pool that never grew.
W_NoGrowthWhenNonEmpty ==
    \E t \in Threads :
        /\ pc[t] = "a_ret" /\ alloc_when_exhausted[t] /\ ret[t] \in DOMAIN mem
        /\ heap = 1

\* C8: whenever a thread reads a slot it holds, it reads the tag it wrote itself.
OwnTagRead == \A t \in Threads : \A p \in BagToSet(held[t]) : mem[p] = Tag(t)

\* C8 witness: both threads hold tagged slots at once, one of them a slot that was
\* freed and allocated again.
W_OwnTagRead ==
    /\ \A t \in Threads : held[t] # EmptyBag
    /\ last[1] = "reused"
    /\ \E t \in Threads : BagIn(last[2], held[t])

\* C9: no step of the pool reads or writes a slot that is allocated to a caller.
PoolLeavesLiveAlone == ~touched

NewChunkOutsideNodeLatch ==
    \A t \in Threads :
        (op[t] = "alloc_new_chunk" /\ pc[t] # "abort") =>
            /\ PreSplice(t) => node_latch_ # t
            /\ node_latch_ = t => pc[t] = "n_splice"
            /\ chunk_latch_ = t => pc[t] = "i_push"

\* C11 witness: the only calls so far are one alloc_new_chunk, still before its splice, and
\* an alloc(false) of another thread; the alloc began while the first thread was inside
\* alloc_new_chunk and has returned a slot to its caller.
W_NewChunkOutsideNodeLatch ==
    \E t \in Threads : \E u \in Threads \ {t} :
        /\ PreSplice(t) /\ pc[t] \in {"i_lock", "i_push", "n_lock"}
        /\ calls = 2
        /\ pc[u] = "idle" /\ t \in overlap[u]
        /\ ~alloc_when_exhausted[u] /\ held[u] # EmptyBag

\* C12: every thread that reads or writes the chunk list holds chunk_latch_ while it does.
ChunkListUnderLatch == \A t \in Threads : AtChunkList(t) => chunk_latch_ = t

\* t is inside a call of the pool; the call has returned; the process has ended in a fault.
InCall(t) == pc[t] \notin {"idle", "a_ret", "abort"}
Returned(t) == pc[t] \in {"idle", "a_ret"}
Faulted == \E t \in Threads : pc[t] = "abort"

Linearizable ==
    [][\A t \in Threads : Moves(t) =>
        /\ pc[t] \in {"a_check", "a_back", "a_pop", "f_push"} => node_latch_ = t
        /\ CASE pc[t] = "a_pop" ->
                    /\ FreeSeq # <<>>
                    /\ ret'[t] = Head(FreeSeq)
                    /\ FreeSeq' = Tail(FreeSeq)
             [] pc[t] = "f_push" -> FreeSeq' = <<ptr[t]>> \o FreeSeq
             [] pc[t] = "a_check" /\ head_ = NULL /\ ~alloc_when_exhausted[t] ->
                    /\ ret'[t] = NULL
                    /\ FreeSeq = <<>> /\ FreeSeq' = <<>>
             [] pc[t] = "a_back" ->
                    /\ FreeSeq = <<>>
                    /\ FreeSeq' = ChunkSeq(Last(chunks_))
             [] OTHER -> FreeSeq' = FreeSeq]_vars

\* C14 witness: a free that holds node_latch_ for its push and an alloc(false) that waits for
\* the latch are in progress at once, on a non-empty free list.
W_Linearizable ==
    \E t \in Threads : \E u \in Threads \ {t} :
        /\ pc[t] = "f_push" /\ node_latch_ = t
        /\ pc[u] = "a_lock" /\ ~alloc_when_exhausted[u]
        /\ head_ # NULL

\* p lies in no chunk of the pool; p lies in a chunk at an offset that is no multiple of
\* item_size; p is the address of a slot of the pool.
Foreign(p) == \A i \in 1 .. Len(chunks_) : p < chunks_[i] \/ p >= chunks_[i] + chunk_size
Misaligned(p) ==
    \E i \in 1 .. Len(chunks_) :
        /\ p >= chunks_[i] /\ p < chunks_[i] + chunk_size
        /\ (p - chunks_[i]) % item_size # 0
IsSlot(p) == \E i \in 1 .. Len(chunks_) : p \in SlotsOf(chunks_[i])

\* C15: the validator of free accepts every address that alloc returned to the caller, and
\* rejects such an address plus one and every address outside all chunks of the pool.
ValidatorVerdicts ==
    [][\A t \in Threads : (Moves(t) /\ pc[t] = "f_scan") =>
        /\ owned[t] => pc'[t] = "f_lock"
        /\ ptr[t] - 1 \in Live => pc'[t] = "abort"
        /\ Foreign(ptr[t]) => pc'[t] = "abort"]_vars

\* C15 witness: the validator has rejected the address one past a slot the caller holds,
\* a slot of the last chunk of a pool of several chunks.
W_ValidatorVerdicts ==
    \E t \in Threads :
        /\ pc[t] = "abort" /\ op[t] = "free"
        /\ BagIn(ptr[t] - 1, held[t])
        /\ Len(chunks_) > 1 /\ ptr[t] - 1 \in SlotsOf(Last(chunks_))

\* C16: in a debug build free(ptr) with a pointer in no chunk of the pool, or at an offset
\* that is no multiple of item_size, ends in the failed assert; up to there free has left head_
\* and every next link as they were, and afterwards nothing runs, so ptr is never pushed.
FreeRejectsStray ==
    [][/\ \A t \in Threads : Moves(t) =>
            /\ pc[t] \in {"f_vlock", "f_snap", "f_scan"} => UNCHANGED <<head_, mem>>
            /\ (pc[t] = "f_scan" /\ (Foreign(ptr[t]) \/ Misaligned(ptr[t])))
                  => pc' = [u \in Workers |-> "abort"]
       /\ Faulted => UNCHANGED <<head_, mem>>]_vars

\* C16 witness: free of an address behind the first chunk and in no chunk has ended in the
\* failed assert, with slots allocated and slots free.
W_FreeRejectsStray ==
    \E t \in Threads :
        /\ pc[t] = "abort" /\ op[t] = "free"
        /\ Foreign(ptr[t]) /\ ptr[t] > HeapBase(0)
        /\ held[t] # EmptyBag /\ head_ # NULL

\* C17: the validator lets every slot address through, whether the slot is allocated or is on
\* the free list already, and free then pushes it: a second free of a slot is not detected.
DoubleFreeUndetected ==
    [][\A t \in Threads : Moves(t) =>
        /\ (pc[t] = "f_scan" /\ IsSlot(ptr[t])) => pc'[t] = "f_lock"
        /\ (pc[t] = "f_push" /\ IsSlot(ptr[t])) => (head_' = ptr[t] /\ mem'[ptr[t]] = head_)]_vars

\* C17 witness: a slot that was on the free list has been freed again and pushed: it is the
\* head and its next link points to itself.
W_DoubleFreeUndetected ==
    /\ last[1] = "free" /\ head_ = last[2]
    /\ mem[head_] = head_
    /\ \A t \in Threads : pc[t] = "idle"

\* C18: when make_unique throws inside alloc_new_chunk or inside the growth of alloc(true),
\* the exception reaches the caller, no latch stays locked, and chunks_, head_, the slots
\* and the heap are as they were when the call began: no step of the call up to the throw
\* changes them.  (The retry then starts from the same pool and grows it if memory is there.)
FailedGrowthLeavesPool ==
    [][\A t \in Threads : Moves(t) =>
        /\ (pc[t] = "i_build" /\ pc'[t] # "i_lock") =>
              /\ UNCHANGED <<chunks_, head_, mem, heap>>
              /\ node_latch_' # t /\ chunk_latch_' # t
              /\ last'[1] = "threw"
              /\ IF InAlloc(t)
                 THEN pc'[t] = "a_ret" /\ ret'[t] = BadAlloc
                 ELSE pc'[t] = "idle"
        /\ (pc'[t] = "i_build" \/ pc[t] = "a_lock") => UNCHANGED <<chunks_, head_, mem, heap>>
        /\ (pc[t] = "a_ret" /\ ret[t] = BadAlloc) => UNCHANGED <<chunks_, head_, mem, heap, held>>]_vars

\* C18 witness: an alloc(true) on an empty list failed with bad_alloc, and the retry, the
\* next call, has obtained its chunk and appended it.
W_FailedGrowthLeavesPool ==
    \E t \in Threads :
        /\ pc[t] = "a_back" /\ op[t] = "alloc"
        /\ last[1] = "grow" /\ last[2] = 1
        /\ Len(chunks_) = last[3] + 1
        /\ node_latch_ = t /\ chunk_latch_ = NoThread

\* C19: chunks_ only grows at its end: no step shortens it or changes an element it has, and
\* every address a caller has from alloc lies, with its item_size bytes, inside a chunk of
\* chunks_.
AppendOnly ==
    [][/\ Len(chunks_') >= Len(chunks_)
       /\ \A i \in 1 .. Len(chunks_) : chunks_'[i] = chunks_[i]
       /\ \A a \in Live' :
             \E i \in 1 .. Len(chunks_') :
                 a >= chunks_'[i] /\ a + item_size <= chunks_'[i] + chunk_size]_vars

\* C19 witness: the pool has grown past the chunks of its construction, to MaxChunks, while
\* a caller holds a slot of its first chunk.
W_AppendOnly ==
    /\ Len(chunks_) = MaxChunks
    /\ Live \cap SlotsOf(chunks_[1]) # {}
    /\ \A t \in Threads : pc[t] = "idle"

\* C20: alloc_as<T>() is alloc(true): it enters alloc with alloc_when_exhausted = true and
\* touches nothing else; with the list non-empty it pops and returns the head and builds no
\* chunk; with the list empty it grows the pool by one chunk and returns that chunk's first
\* slot; it never returns nullptr.
AllocAsIsAllocTrue ==
    [][\A t \in Threads :
        /\ (op[t] # "alloc_as" /\ op'[t] = "alloc_as") =>
              /\ pc'[t] = "a_lock"
              /\ UNCHANGED <<chunks_, head_, mem, heap, node_latch_, chunk_latch_, held>>
        /\ op'[t] = "alloc_as" => alloc_when_exhausted'[t] = TRUE
        /\ (op[t] = "alloc_as" /\ Moves(t)) =>
              /\ pc[t] = "a_check" =>
                    /\ pc'[t] = (IF head_ # NULL THEN "a_pop" ELSE "i_build")
                    /\ UNCHANGED <<chunks_, head_, mem, heap>>
              /\ pc[t] = "a_back" => head_' = Last(chunks_)
              /\ pc[t] = "a_pop" => (ret'[t] = head_ /\ head_' = mem[head_])
              /\ pc[t] = "a_ret" =>
                    /\ ret[t] # NULL
                    /\ ret[t] # BadAlloc => held'[t] = held[t] (+) SetToBag({ret[t]})
                    /\ last[1] = "drain" =>
                          (Len(chunks_) = last[3] + 1 /\ ret[t] = Last(chunks_))]_vars

\* C20 witness: alloc_as on an empty free list has grown the pool and returned the first
\* slot of the new chunk.
W_AllocAsIsAllocTrue ==
    \E t \in Threads :
        /\ pc[t] = "a_ret" /\ op[t] = "alloc_as"
        /\ last[1] = "drain" /\ last[2] = 1
        /\ ret[t] = Last(chunks_) /\ Len(chunks_) = last[3] + 1
        /\ held[t] # EmptyBag

\* No call of the pool is running and no result waits to be taken.
Quiescent == \A t \in Threads : pc[t] = "idle"

\* The number of allocations the clients hold, counted with multiplicity.
RECURSIVE HeldCount(_)
HeldCount(S) ==
    IF S = {} THEN 0
    ELSE LET t == CHOOSE t \in S : TRUE
         IN  BagCardinality(held[t]) + HeldCount(S \ {t})

\* C25: in every quiescent state every slot of every chunk of the chunk list is a live
\* allocation or reachable from head_, and free slots plus live allocations number
\* floor(chunk_size / item_size) times the number of chunks.
SlotConservation ==
    Quiescent =>
        /\ \A i \in 1 .. Len(chunks_) : SlotsOf(chunks_[i]) \subseteq Live \cup FreeSet
        /\ Cardinality(FreeSet) + HeldCount(Threads) = ItemsPerChunk * Len(chunks_)

\* C26: an alloc_new_chunk call that runs alone appends exactly one chunk, at its push, and
\* at its splice puts that chunk's slots, first to last, in front of the free list, which
\* grows by floor(chunk_size / item_size) slots and keeps the old slots in their order (on an
\* empty list the chunk's last slot ends the chain); allocations return the slots of the list
\* from its front.
NewChunkSplicesInFront ==
    [][\A t \in Threads :
        /\ (op[t] = "alloc_new_chunk" /\ Moves(t)) =>
              CASE pc[t] = "i_push" ->
                        /\ chunks_' = Append(chunks_, new_chunk[t])
                        /\ FreeSeq' = FreeSeq
                        /\ pc'[t] = "n_lock"
                [] pc[t] = "n_splice" ->
                        /\ chunks_' = chunks_
                        /\ FreeSeq' = ChunkSeq(Last(chunks_)) \o FreeSeq
                        /\ Len(FreeSeq') = Len(FreeSeq) + ItemsPerChunk
                        /\ head_ = NULL => mem'[SlotAddr(Last(chunks_), ItemsPerChunk - 1)] = NULL
                        /\ pc'[t] = "idle"
                [] OTHER -> chunks_' = chunks_ /\ FreeSeq' = FreeSeq
        /\ (pc[t] = "a_pop" /\ Moves(t)) =>
              (FreeSeq # <<>> /\ ret'[t] = Head(FreeSeq) /\ FreeSeq' = Tail(FreeSeq))]_vars

\* C26 witness: alloc_new_chunk is at its splice with a chunk of several slots, the free list
\* is not empty and the caller holds an allocation.
W_NewChunkSplicesInFront ==
    \E t \in Threads :
        /\ pc[t] = "n_splice" /\ op[t] = "alloc_new_chunk"
        /\ head_ # NULL /\ ItemsPerChunk >= 2
        /\ held[t] # EmptyBag

\* The slots of chunks 1..n of the chunk list, chunk by chunk, each chunk's slots first to last.
RECURSIVE ChunkOrder(_)
ChunkOrder(n) == IF n = 0 THEN <<>> ELSE ChunkOrder(n - 1) \o ChunkSeq(chunks_[n])

\* C27: right after construction the free list is every slot once, in chunk order, and the
\* last slot of the last chunk ends the chain; the k-th allocation since construction returns
\* the k-th slot of that order.
ConstructionOrder ==
    /\ calls = 0 =>
          /\ FreeSeq = ChunkOrder(Len(chunks_))
          /\ mem[SlotAddr(Last(chunks_), ItemsPerChunk - 1)] = NULL
    /\ \A t \in Threads :
          (pc[t] = "a_ret" /\ last[1] = "init" /\ last[2] <= ItemsPerChunk * Len(chunks_)) =>
              ret[t] = ChunkOrder(Len(chunks_))[last[2]]

\* C27 witness: a pool built with two chunks of two slots; the fourth allocation since
\* construction has returned the second slot of the second chunk.
W_ConstructionOrder ==
    \E t \in Threads :
        /\ pc[t] = "a_ret" /\ last = <<"init", 4, 0>>
        /\ Len(chunks_) = 2 /\ ItemsPerChunk = 2
        /\ ret[t] = SlotAddr(chunks_[2], 1)

\* C28: every address alloc returns is chunk_base + k * item_size for a chunk of the chunk
\* list and 0 <= k < floor(chunk_size / item_size), so its item_size bytes lie inside the
\* chunk and the bytes behind the last whole slot are never handed out.
SlotAddresses ==
    \A t \in Threads : \A a \in LiveOf(t) :
        \E i \in 1 .. Len(chunks_) : \E k \in 0 .. (chunk_size \div item_size) - 1 :
            /\ a = chunks_[i] + k * item_size
            /\ a + item_size <= chunks_[i] + chunk_size

\* C28 witness: chunk_size is no multiple of item_size and alloc has returned the last slot
\* of a chunk, behind which bytes of the chunk remain.
W_SlotAddresses ==
    \E t \in Threads : \E i \in 1 .. Len(chunks_) :
        /\ pc[t] = "a_ret"
        /\ chunk_size % item_size # 0
        /\ ret[t] = SlotAddr(chunks_[i], ItemsPerChunk - 1)
        /\ ret[t] + item_size < chunks_[i] + chunk_size

\* A sequence in reverse.
RECURSIVE Rev(_)
Rev(q) == IF q = <<>> THEN <<>> ELSE Rev(Tail(q)) \o <<Head(q)>>

\* C29: after frees of s1, ..., sn with no allocation in between, the k-th alloc(false) that
\* follows returns s(n-k+1) and leaves s(n-k), ..., s1 in front of the free list as it was
\* before the frees; after the n-th the free list is what it was before the frees.
LifoOrder ==
    [][\A t \in Threads :
        (Moves(t) /\ pc[t] = "a_pop" /\ run'[3] = run[3] + 1) =>
            LET n == Len(run[2])
                k == run'[3]
            IN  /\ ret'[t] = run[2][n - k + 1]
                /\ FreeSeq' = Rev(SubSeq(run[2], 1, n - k)) \o run[1]
                /\ k = n => FreeSeq' = run[1]]_vars

\* C29 witness: three slots were freed in a row onto a non-empty free list and three calls of
\* alloc(false) have returned since; the last of them returned the slot freed first.
W_LifoOrder ==
    \E t \in Threads :
        /\ pc[t] = "a_ret"
        /\ Len(run[2]) = 3 /\ run[3] = 3
        /\ Cardinality({run[2][i] : i \in 1 .. 3}) = 3
        /\ ret[t] = run[2][1]
        /\ run[1] # <<>> /\ FreeSeq = run[1]

\* C30: a pool constructed with 0 chunks has an empty chunk list and a null head_, and its
\* construction ends without a fault; its first alloc(false) returns nullptr and its first
\* alloc(true) returns the first slot of the one chunk it appends.
ZeroChunkPool ==
    /\ calls = 0 => (chunks_ = <<>> /\ head_ = NULL /\ ~Faulted)
    /\ \A t \in Threads :
          (calls = 1 /\ pc[t] = "a_ret") =>
              IF alloc_when_exhausted[t]
              THEN Len(chunks_) = 1 /\ ret[t] = chunks_[1]
              ELSE chunks_ = <<>> /\ ret[t] = NULL

BlockedPopReleased ==
    \A t \in Threads :
        /\ (qpc[t] = "c_wait" /\ shutdown_ /\ qop[t] = "pop") ~>
              (qpc[t] = "idle" /\ qres[t] = Result("throw", <<>>))
        /\ (qpc[t] = "c_wait" /\ shutdown_ /\ qop[t] = "pop_out") ~>
              (qpc[t] = "idle" /\ qres[t] = Result("false", <<>>))
        /\ (qpc[t] = "c_wait" /\ dq_ # <<>>) ~> (qpc[t] # "c_wait" \/ dq_ = <<>>)

\* C22 witness: a thread is blocked in pop on the queue into which another thread's push has
\* just put an item, before that push has notified anybody.
W_BlockedPopReleased ==
    \E t \in Threads : \E u \in Threads \ {t} :
        /\ qpc[t] = "c_wait" /\ t \in cv_
        /\ qpc[u] = "p_notify" /\ dq_ = qarg[u]

\* C23: a ring_buffer_spsc constructed with size n holds at most n items.  Called from one
\* thread: push and emplace return true and store the item while fewer than n items are
\* stored, and return false and leave the buffer alone when n are stored; pop returns
\* false on an empty buffer and the oldest item otherwise; size() is the number of stored
\* items and within 0..n, full() holds exactly at n items and empty() exactly at none.
RingCapacity ==
    /\ [](/\ Stored \in 0 .. (size_ - 1)
          /\ (\A r \in Roles : rpc[r] = "idle") =>
                /\ RingSize = Stored
                /\ RingFull <=> Stored = size_ - 1
                /\ RingEmpty <=> Stored = 0)
    /\ [][/\ Steps("prod") =>
                IF Stored = size_ - 1
                THEN /\ Returns("prod", "false")
                     /\ UNCHANGED <<Buffer, rpushed, rpopped>>
                ELSE /\ Returns("prod", "true")
                     /\ rpc'["prod"] = "idle" =>
                           /\ rpushed' = Append(rpushed, rarg[2])
                           /\ data_'[rb_head_] = rarg[2]
                           /\ Stored' = Stored + 1
          /\ Steps("cons") =>
                IF Stored = 0
                THEN /\ Returns("cons", "false")
                     /\ UNCHANGED <<Buffer, rpushed, rpopped>>
                ELSE /\ Returns("cons", "true")
                     /\ rpc'["cons"] = "idle" =>
                           /\ rres'["cons"].out = rpushed[Len(rpopped) + 1]
                           /\ Stored' = Stored - 1]_vars

\* A buffer of size MaxRing that is full after its indexes wrapped around, and the push that
\* was refused.
W_RingCapacity ==
    /\ \A r \in Roles : rpc[r] = "idle"
    /\ size_ = MaxRing + 1
    /\ Stored = MaxRing
    /\ rb_head_ < rb_tail_
    /\ RingFull
    /\ rres["prod"].kind = "false"
    /\ rres["cons"].kind = "true"

\* C24: with one producer thread that pushes and one consumer thread that pops at the same
\* time, the popped values are at every moment a prefix of the pushed values, the items
\* not popped yet sit in the cells from tail_ up to head_ in the order of their pushes, and
\* pop never reads a cell that holds no published item.
SpscPrefix ==
    LET moved == IF rpc["cons"] = "r_store" THEN 1 ELSE 0
    IN  /\ Len(rpopped) <= Len(rpushed)
        /\ \A i \in 1 .. Len(rpopped) : rpopped[i] = rpushed[i]
        /\ \A k \in moved .. (Stored - 1) :
              data_[(rb_tail_ + k) % size_] = rpushed[Len(rpopped) + 1 + k]
        /\ rpc["cons"] \in {"r_move", "r_store"} => Stored > 0
        /\ rpc["cons"] = "r_move" => data_[cur["cons"]] = rpushed[Len(rpopped) + 1]
        /\ rpc["cons"] = "r_store" => rres["cons"].out = rpushed[Len(rpopped) + 1]

\* The consumer is about to publish its second pop while the producer has written, into the
\* last cell, an item that it has not published yet: its store will wrap head_ around.
W_SpscPrefix ==
    /\ rpc["cons"] = "r_store"
    /\ rpc["prod"] = "w_store"
    /\ Len(rpopped) = 1
    /\ rres["cons"].out = rpushed[2]
    /\ cur["prod"] = size_ - 1
    /\ size_ = MaxRing + 1
    /\ data_[cur["prod"]] = rarg[2]

\* C32: for every item_size and chunk_size the validator of free lets a pointer through if
\* and only if the pointer is the start of one of the chunk_size / item_size slots of a chunk
\* of the pool.
ValidatorExactlySlots ==
    [][\A t \in Threads : (Moves(t) /\ pc[t] = "f_scan") =>
        (pc'[t] = "f_lock" <=> IsSlot(ptr[t]))]_vars

\* C33: the validation inside free never fails for a pointer that alloc returned and that is
\* still allocated, whatever growth runs beside it: every live allocation is a slot of a
\* chunk that is in chunks_ already, the snapshot free scans holds that chunk, and the test
\* of the scan is true of the pointer.
LiveValidates ==
    \A t \in Threads :
        /\ \A a \in LiveOf(t) : IsSlot(a)
        /\ (pc[t] = "f_scan" /\ owned[t]) =>
              /\ \E i \in 1 .. Len(snapshot[t]) : ptr[t] \in SlotsOf(snapshot[t][i])
              /\ InSnapshot(ptr[t], snapshot[t])

\* C33 witness: free is about to scan its snapshot for a slot of the second chunk, and the
\* pool has grown by a third chunk since the snapshot was taken.
W_LiveValidates ==
    \E t \in Threads :
        /\ pc[t] = "f_scan" /\ owned[t]
        /\ Len(snapshot[t]) = 2 /\ Len(chunks_) = 3
        /\ ptr[t] \in SlotsOf(snapshot[t][2])

\* Where the walk along the next links from a ends: at the null terminator, at a node it has
\* visited before, or at an address that is no slot.
RECURSIVE WalkEnd(_, _)
WalkEnd(a, visited) ==
    IF a = NULL THEN "null"
    ELSE IF a \in visited THEN "cycle"
    ELSE IF a \notin DOMAIN mem THEN "stray"
    ELSE WalkEnd(mem[a], visited \cup {a})

\* C35: with threads calling alloc, free and alloc_new_chunk, each freeing only what it holds,
\* the free list is in every state a finite chain without a cycle: the walk from head_ visits
\* no slot twice and ends at the null terminator after at most as many steps as the pool has
\* slots.
FreeListAcyclic ==
    /\ WalkEnd(head_, {}) = "null"
    /\ Len(FreeSeq) <= ItemsPerChunk * Len(chunks_)

\* t waits for node_latch_; t waits for chunk_latch_.
WantsNode(t) == pc[t] \in {"a_lock", "f_lock", "n_lock"}
WantsChunk(t) == pc[t] \in {"i_lock", "f_vlock"}

\* C36: no thread asks for node_latch_ while it holds chunk_latch_.  A thread holds
\* chunk_latch_ only for the push_back of alloc_chunk_impl and for the snapshot of the
\* validator and has released it when that function returns, so chunk_latch_ is always the
\* inner latch, and no two threads wait for each other's latch.
LatchOrder ==
    /\ \A t \in Threads :
          /\ (chunk_latch_ = t /\ pc[t] # "abort") => pc[t] \in {"i_push", "f_snap"}
          /\ WantsNode(t) => chunk_latch_ # t
    /\ ~ \E t \in Threads : \E u \in Threads \ {t} :
          /\ node_latch_ = t /\ WantsChunk(t)
          /\ chunk_latch_ = u /\ WantsNode(u)

\* C36 witness: a thread inside alloc_new_chunk has pushed its chunk and asks for node_latch_,
\* and chunk_latch_, which it has released, is held by the other thread for its push.
W_LatchOrder ==
    \E t \in Threads : \E u \in Threads \ {t} :
        /\ pc[t] = "n_lock" /\ Len(chunks_) > 1
        /\ pc[u] = "i_push" /\ chunk_latch_ = u

\* t takes the step of its call that runs under mtx_.
InBody(t) == qpc[t] \in {"p_body", "b_body", "c_test", "t_body", "k_body"} /\ qpc'[t] # qpc[t]

\* C38: after shutdown() the queue stays shut down and its contents stay as they are: push,
\* emplace and bulk_push throw and enqueue nothing, pop() throws, pop(T&) and try_pop return
\* false and bulk_try_pop returns 0, also when items are queued, and no item is handed out.
ClosedForGood ==
    /\ [][shutdown_ => (shutdown_' /\ UNCHANGED <<dq_, pushed, popped>>)]_vars
    /\ [][\A t \in Threads : (shutdown_ /\ InBody(t)) =>
            /\ qpc'[t] = "idle"
            /\ qres'[t] =
                  CASE qop[t] \in {"push", "emplace", "bulk_push", "pop"} -> Result("throw", <<>>)
                    [] qop[t] \in {"pop_out", "try_pop"} -> Result("false", <<>>)
                    [] qop[t] = "bulk_try_pop" -> Result("count", <<>>)]_vars

\* C38 witness: the queue was shut down with two items in it, and a pop(T&) or try_pop
\* called afterwards has returned false.
W_ClosedForGood ==
    \E t \in Threads :
        /\ shutdown_ /\ Len(dq_) = 2 /\ calls = MaxCallsShut
        /\ qpc[t] = "idle" /\ qres[t] = Result("false", <<>>)

\* head_ is a slot whose next link points to the slot itself.
SelfLoop == head_ \in DOMAIN mem /\ mem[head_] = head_

Max(a, b) == IF a > b THEN a ELSE b
Ceil(n, p) == (n + p - 1) \div p

\* C34: with threads that call alloc and free nothing, a chunk is appended to chunks_ only
\* while the free list is empty; so when the callers hold N slots, the pool constructed with
\* c chunks has max(c, ceil(N / p)) chunks, p the number of slots of a chunk.
GrowOnlyWhenEmpty ==
    /\ [][chunks_' # chunks_ => (head_ = NULL /\ Len(chunks_') = Len(chunks_) + 1)]_vars
    /\ \A c \in 1 .. MaxInitChunks :
          Len(chunks_) = c =>
              [](Quiescent =>
                    Len(chunks_) = Max(c, Ceil(HeldCount(Threads), ItemsPerChunk)))

\* C34 witness: the pool has grown to two chunks of two slots, and the callers, both of
\* them, hold three slots.
W_GrowOnlyWhenEmpty ==
    /\ Quiescent
    /\ ItemsPerChunk = 2 /\ Len(chunks_) = 2 /\ last[1] = "drain"
    /\ HeldCount(Threads) = 3
    /\ \A t \in Threads : held[t] # EmptyBag

\* t waits for node_latch_ in a call that takes no other latch: the push of free, or an
\* alloc that does not grow the pool.
OnlyNode(t) == pc[t] = "f_lock" \/ (pc[t] = "a_lock" /\ ~ alloc_when_exhausted[t])

\* The thread that holds node_latch_ waits for chunk_latch_, which a thread holds for the
\* snapshot of the validator.
BehindValidator ==
    \E u \in Workers : \E w \in Workers \ {u} :
        /\ node_latch_ = u /\ pc[u] = "i_lock"
        /\ chunk_latch_ = w /\ pc[w] = "f_snap"

\* The validator copies chunks_ while it holds chunk_latch_ and nothing changes chunks_
\* meanwhile, it has released the latch when it scans, and a free never holds both latches.
SnapshotUnderLatch ==
    /\ [](\A t \in Workers :
            /\ pc[t] = "f_snap" => chunk_latch_ = t
            /\ pc[t] \in {"f_vlock", "f_scan"} => chunk_latch_ # t
            /\ pc[t] \in {"f_vlock", "f_snap", "f_scan"} => node_latch_ # t
            /\ op[t] = "free" => ~ (chunk_latch_ = t /\ node_latch_ = t))
    /\ [][/\ (\E t \in Workers : pc[t] = "f_snap") => chunks_' = chunks_
          /\ \A t \in Workers : (Moves(t) /\ pc[t] = "f_snap") =>
                (pc'[t] = "f_scan" /\ snapshot'[t] = chunks_)]_vars

====
